---- MODULE Spec2Model ----
(***************************************************************************)
(* askjson GUI (src/gui.py): the visibility filter, the schema analyzer,   *)
(* the schema-tree path addressing and the viewer window's session state.  *)
(*                                                                         *)
(* Python values (JSON documents and the schema dictionaries built from    *)
(* them) are tagged records:                                               *)
(*   [t |-> "dict", keys |-> <<k1,..>>, vals |-> <<v1,..>>]  insertion order*)
(*   [t |-> "list", items |-> <<v1,..>>]                                   *)
(*   [t |-> "str", s |-> <<"a","b">>]  (its characters)                    *)
(*   [t |-> "int", n |-> 1]                                                *)
(*   [t |-> "bool", b |-> TRUE]   [t |-> "NoneType"]                       *)
(*   [t |-> "float", num |-> p, den |-> q, root |-> r]  the rational p/q,  *)
(*       or its square root when r is TRUE                                 *)
(* A raised exception is [t |-> "raise", exc |-> "TypeError"].             *)
(***************************************************************************)
EXTENDS Integers, Sequences, FiniteSets, TLC

VARIABLES
    \* ---- JsonViewerWindow (src/gui.py:1030) ----
    current_json_file,   \* self.current_json_file: "none" or a file name
    json_content,        \* self.json_content: the text read from the file
    parsed_json,         \* self.parsed_json
    hidden_paths,        \* self.hidden_paths: set of tuples of strings
    json_viewer,         \* what self.json_viewer displays
    instruction_label,   \* self.instruction_label text (its kind)
    \* ---- JsonSchemaViewer / JsonSchemaTreeWidget ----
    schema_json_data,    \* schema_viewer.json_data
    schema_info,         \* schema_viewer.schema_info
    tree_items,          \* schema_tree: its items in creation order
    tree_hidden_paths,   \* schema_tree.hidden_paths
    \* ---- JqQueryInput (src/gui.py:95) ----
    query_text,          \* query_input.text(), its characters
    history,             \* self.history, oldest first
    history_index,       \* self.history_index
    current_input,       \* self.current_input
    \* ---- ChatWidget (src/gui.py:732) ----
    chat_display,        \* the blocks of self.chat_display, in order
    event_queue,         \* slot calls posted to the UI thread, oldest first
    workers,             \* the get_response threads started, in order
    query_calls,         \* the arguments of set_query_from_chat, in call order
    \* ---- the operation applied last ----
    op,                  \* the function or handler that ran last
    input,               \* its drawn inputs or arguments
    output               \* its results (session: the last query's outcome)

winVars == <<current_json_file, json_content, parsed_json, hidden_paths,
             json_viewer, instruction_label>>
schemaVars == <<schema_json_data, schema_info, tree_items, tree_hidden_paths>>
inputVars == <<query_text, history, history_index, current_input>>
chatVars == <<chat_display, event_queue, workers, query_calls>>
widgetVars == <<inputVars, chatVars>>
funVars == <<op, input, output>>
vars == <<winVars, schemaVars, widgetVars, funVars>>

(***************************************************************************)
(* Python values                                                           *)
(***************************************************************************)
PyNone == [t |-> "NoneType"]
PyInt(n) == [t |-> "int", n |-> n]
PyBool(b) == [t |-> "bool", b |-> b]
PyStr(s) == [t |-> "str", s |-> s]
RECURSIVE GCD(_, _)
GCD(a, b) == IF b = 0 THEN a ELSE GCD(b, a % b)
Abs(x) == IF x < 0 THEN -x ELSE x
\* the float p/q (q > 0), in lowest terms
PyFloat(p, q) ==
    LET g == GCD(Abs(p), q)
    IN [t |-> "float", num |-> p \div g, den |-> q \div g, root |-> FALSE]
\* the float sqrt(p/q)
PyFloatSqrt(p, q) ==
    LET g == GCD(Abs(p), q)
    IN [t |-> "float", num |-> p \div g, den |-> q \div g, root |-> TRUE]
PyList(items) == [t |-> "list", items |-> items]
PyDict(keys, vals) == [t |-> "dict", keys |-> keys, vals |-> vals]
EmptyDict == PyDict(<<>>, <<>>)
Raise(exc) == [t |-> "raise", exc |-> exc]

IsDict(v) == v.t = "dict"
IsList(v) == v.t = "list"

\* type(value).__name__ as a str value
TypeName(v) ==
    CASE v.t = "dict" -> PyStr(<<"d", "i", "c", "t">>)
      [] v.t = "list" -> PyStr(<<"l", "i", "s", "t">>)
      [] v.t = "str" -> PyStr(<<"s", "t", "r">>)
      [] v.t = "int" -> PyStr(<<"i", "n", "t">>)
      [] v.t = "float" -> PyStr(<<"f", "l", "o", "a", "t">>)
      [] v.t = "bool" -> PyStr(<<"b", "o", "o", "l">>)
      [] v.t = "NoneType" -> PyStr(<<"N", "o", "n", "e", "T", "y", "p", "e">>)

\* isinstance(item, type(first)): bool is a subclass of int
IsInstanceOfTypeOf(item, first) ==
    \/ item.t = first.t
    \/ (item.t = "bool" /\ first.t = "int")

\* isinstance(item, (int, float))
IsNumber(item) == item.t \in {"int", "float", "bool"}

\* Python truthiness: `if x`, `not x`
Truthy(v) ==
    CASE v.t = "NoneType" -> FALSE
      [] v.t = "bool" -> v.b
      [] v.t = "int" -> v.n # 0
      [] v.t = "float" -> v.num # 0
      [] v.t = "str" -> v.s # <<>>
      [] v.t = "list" -> v.items # <<>>
      [] v.t = "dict" -> v.keys # <<>>
      [] OTHER -> TRUE

Range(f) == {f[i] : i \in DOMAIN f}

\* the position of key k in the sequence ks, 0 when absent
IndexOf(ks, k) ==
    IF \E i \in DOMAIN ks : ks[i] = k
    THEN CHOOSE i \in DOMAIN ks : ks[i] = k
    ELSE 0

\* `k in d`, d[k] for a dict
HasKey(d, k) == \E i \in DOMAIN d.keys : d.keys[i] = k
Get(d, k) == d.vals[IndexOf(d.keys, k)]

\* d[k] = v : a new key goes last, an existing key keeps its position
DictSet(d, k, v) ==
    IF HasKey(d, k)
    THEN PyDict(d.keys, [d.vals EXCEPT ![IndexOf(d.keys, k)] = v])
    ELSE PyDict(Append(d.keys, k), Append(d.vals, v))

(***************************************************************************)
(* JsonViewerWindow.filter_json_by_visibility  (src/gui.py:1124-1153)      *)
(***************************************************************************)
RECURSIVE KeptIndexes(_, _, _, _)
\* the positions i..Len(keys) of the keys whose key_path is not hidden, in order
KeptIndexes(keys, current_path, hidden, i) ==
    IF i > Len(keys) THEN <<>>
    ELSE IF Append(current_path, keys[i]) \in hidden
         THEN KeptIndexes(keys, current_path, hidden, i + 1)
         ELSE <<i>> \o KeptIndexes(keys, current_path, hidden, i + 1)

RECURSIVE _filter_recursive(_, _, _)

\* a list comprehension that skips the falsy items:
\*   [_filter_recursive(item, current_path) for item in data if item]
RECURSIVE TruthyItems(_)
TruthyItems(items) ==
    IF items = <<>> THEN <<>>
    ELSE IF Truthy(Head(items))
         THEN <<Head(items)>> \o TruthyItems(Tail(items))
         ELSE TruthyItems(Tail(items))

filter_recursive_skip_empty(data, current_path, hidden) ==
    IF IsDict(data)
    THEN LET kept == KeptIndexes(data.keys, current_path, hidden, 1)
         IN PyDict([j \in DOMAIN kept |-> data.keys[kept[j]]],
                   [j \in DOMAIN kept |->
                       _filter_recursive(data.vals[kept[j]],
                                         Append(current_path, data.keys[kept[j]]),
                                         hidden)])
    ELSE IF IsList(data)
    THEN LET its == TruthyItems(data.items)
         IN PyList([j \in DOMAIN its |->
                       _filter_recursive(its[j], current_path, hidden)])
    ELSE data

\* the recursion passes the index-qualified path of an element:
\*   _filter_recursive(item, current_path + (str(i),))
filter_recursive_indexed(data, current_path, hidden) ==
    IF IsDict(data)
    THEN LET kept == KeptIndexes(data.keys, current_path, hidden, 1)
         IN PyDict([j \in DOMAIN kept |-> data.keys[kept[j]]],
                   [j \in DOMAIN kept |->
                       _filter_recursive(data.vals[kept[j]],
                                         Append(current_path, data.keys[kept[j]]),
                                         hidden)])
    ELSE IF IsList(data)
    THEN PyList([j \in DOMAIN data.items |->
                    _filter_recursive(data.items[j],
                                      Append(current_path, ToString(j - 1)),
                                      hidden)])
    ELSE data

\* the value of a key is filtered with the path of its parent:
\*   filtered_value = _filter_recursive(value, current_path)
filter_recursive_flat_path(data, current_path, hidden) ==
    IF IsDict(data)
    THEN LET kept == KeptIndexes(data.keys, current_path, hidden, 1)
         IN PyDict([j \in DOMAIN kept |-> data.keys[kept[j]]],
                   [j \in DOMAIN kept |->
                       _filter_recursive(data.vals[kept[j]], current_path, hidden)])
    ELSE IF IsList(data)
    THEN PyList([j \in DOMAIN data.items |->
                    _filter_recursive(data.items[j], current_path, hidden)])
    ELSE data

_filter_recursive(data, current_path, hidden) ==
    IF IsDict(data)
    THEN LET kept == KeptIndexes(data.keys, current_path, hidden, 1)
         IN PyDict([j \in DOMAIN kept |-> data.keys[kept[j]]],
                   [j \in DOMAIN kept |->
                       _filter_recursive(data.vals[kept[j]],
                                         Append(current_path, data.keys[kept[j]]),
                                         hidden)])
    ELSE IF IsList(data)
    THEN PyList([j \in DOMAIN data.items |->
                    _filter_recursive(data.items[j], current_path, hidden)])
    ELSE data

\* the early return gives no value back: `if not self.hidden_paths: return`
filter_return_missing(json_data, hidden) ==
    IF hidden = {}
    THEN PyNone
    ELSE _filter_recursive(json_data, <<>>, hidden)

filter_json_by_visibility(json_data, hidden) ==
    IF hidden = {}
    THEN json_data
    ELSE _filter_recursive(json_data, <<>>, hidden)

(***************************************************************************)
(* JsonSchemaAnalyzer  (src/gui.py:165-369)                                *)
(***************************************************************************)
SampleLimit == 10
ExamplesMinLen == 5
CounterMaxLen == 1000
TopN == 5
PreviewLen == 50
RandomCount == 3

\* the draws given to an analysis of a document that holds no array of more
\* than ExamplesMinLen strings: random.sample (src/gui.py:366) is not called
NoDraws == [i \in 1..RandomCount |-> 0]

\* a dict from a sequence of <<key, value>> pairs
DictOf(pairs) ==
    PyDict([i \in DOMAIN pairs |-> pairs[i][1]], [i \in DOMAIN pairs |-> pairs[i][2]])

Min2(a, b) == IF a < b THEN a ELSE b

\* numbers as rationals <<p, q>> with q > 0; True is 1 and False is 0
NumOf(v) ==
    CASE v.t = "int" -> <<v.n, 1>>
      [] v.t = "bool" -> <<IF v.b THEN 1 ELSE 0, 1>>
      [] v.t = "float" -> <<v.num, v.den>>
RatLess(a, b) == a[1] * b[2] < b[1] * a[2]
\* p/q in lowest terms
RatNorm(p, q) == LET g == GCD(Abs(p), q) IN <<p \div g, q \div g>>
RatAdd(a, b) == RatNorm(a[1] * b[2] + b[1] * a[2], a[2] * b[2])
RatSub(a, b) == RatNorm(a[1] * b[2] - b[1] * a[2], a[2] * b[2])
RatMul(a, b) == RatNorm(a[1] * b[1], a[2] * b[2])
RECURSIVE RatSum(_)
RatSum(rs) == IF rs = <<>> THEN <<0, 1>> ELSE RatAdd(Head(rs), RatSum(Tail(rs)))
Nums(arr) == [i \in DOMAIN arr |-> NumOf(arr[i])]

\* min(arr), max(arr): the first of the smallest (largest) elements
PyMin(arr) ==
    arr[CHOOSE i \in DOMAIN arr :
           /\ \A j \in DOMAIN arr : ~RatLess(NumOf(arr[j]), NumOf(arr[i]))
           /\ \A j \in 1..(i - 1) : RatLess(NumOf(arr[i]), NumOf(arr[j]))]
PyMax(arr) ==
    arr[CHOOSE i \in DOMAIN arr :
           /\ \A j \in DOMAIN arr : ~RatLess(NumOf(arr[i]), NumOf(arr[j]))
           /\ \A j \in 1..(i - 1) : RatLess(NumOf(arr[j]), NumOf(arr[i]))]

\* sorted(arr): stable, ascending by numeric value
InsertAsc(sorted, x) ==
    LET k == Cardinality({i \in DOMAIN sorted : ~RatLess(NumOf(x), NumOf(sorted[i]))})
    IN SubSeq(sorted, 1, k) \o <<x>> \o SubSeq(sorted, k + 1, Len(sorted))
RECURSIVE SortAsc(_)
SortAsc(arr) ==
    IF arr = <<>> THEN <<>>
    ELSE InsertAsc(SortAsc(SubSeq(arr, 1, Len(arr) - 1)), arr[Len(arr)])

\* statistics.mean: exact; an int when the data are ints (or bools) and the
\* quotient is whole, else a float
StatMean(arr) ==
    LET total == RatSum(Nums(arr))
        q == PyFloat(total[1], total[2] * Len(arr))
    IN IF arr[1].t \in {"int", "bool"} /\ q.den = 1 THEN PyInt(q.num) ELSE q

\* statistics.median: the middle element, or the mean of the two middle ones
StatMedian(arr) ==
    LET data == SortAsc(arr)
        n == Len(data)
        i == n \div 2
    IN IF n % 2 = 1
       THEN data[i + 1]
       ELSE LET sum == RatAdd(NumOf(data[i]), NumOf(data[i + 1]))
            IN PyFloat(sum[1], sum[2] * 2)

\* statistics.stdev (n >= 2): sqrt(sum((x - mean)^2) / (n - 1))
StatStdev(arr) ==
    LET n == Len(arr)
        total == RatSum(Nums(arr))
        m == <<total[1], total[2] * n>>
        sq == [i \in DOMAIN arr |->
                 RatMul(RatSub(NumOf(arr[i]), m), RatSub(NumOf(arr[i]), m))]
        ss == RatSum(sq)
    IN PyFloatSqrt(ss[1], ss[2] * (n - 1))

\* Counter(arr): the distinct values in first-encountered order, with counts
RECURSIVE DistinctInOrder(_)
DistinctInOrder(arr) ==
    IF arr = <<>> THEN <<>>
    ELSE LET front == DistinctInOrder(SubSeq(arr, 1, Len(arr) - 1))
             x == arr[Len(arr)]
         IN IF \E i \in DOMAIN front : front[i] = x THEN front ELSE Append(front, x)
CounterItems(arr) ==
    LET ds == DistinctInOrder(arr)
    IN [i \in DOMAIN ds |->
          <<ds[i], Cardinality({j \in DOMAIN arr : arr[j] = ds[i]})>>]

\* an unstable order: among equal counts the value met last comes first
insert_desc_ties_reversed(sorted, x) ==
    LET k == Cardinality({i \in DOMAIN sorted : sorted[i][2] > x[2]})
    IN SubSeq(sorted, 1, k) \o <<x>> \o SubSeq(sorted, k + 1, Len(sorted))

\* mutant: the counts in first-encountered order, never sorted
most_common_unsorted(arr) == CounterItems(arr)

\* Counter.most_common(): sorted by count, descending, stable
InsertDesc(sorted, x) ==
    LET k == Cardinality({i \in DOMAIN sorted : sorted[i][2] >= x[2]})
    IN SubSeq(sorted, 1, k) \o <<x>> \o SubSeq(sorted, k + 1, Len(sorted))
RECURSIVE SortDesc(_)
SortDesc(items) ==
    IF items = <<>> THEN <<>>
    ELSE InsertDesc(SortDesc(SubSeq(items, 1, Len(items) - 1)), items[Len(items)])
MostCommonAll(arr) == SortDesc(CounterItems(arr))

\* {'value': value, 'count': count}
ValueCount(pair) ==
    DictOf(<< <<"value", pair[1]>>, <<"count", PyInt(pair[2])>> >>)

\* random.sample(population, k): k distinct members in the order drawn;
\* rnd is the sequence of draws
RECURSIVE RandomSample(_, _, _)
RandomSample(population, k, rnd) ==
    IF k = 0 THEN <<>>
    ELSE LET j == (Head(rnd) % Len(population)) + 1
             rest == SubSeq(population, 1, j - 1)
                       \o SubSeq(population, j + 1, Len(population))
         IN <<population[j]>> \o RandomSample(rest, k - 1, Tail(rnd))

\* the median is computed for every length: `if len(arr) > 1` left out
numeric_stats_median_always(arr) ==
    LET n == Len(arr)
        mid_idx == n \div 2
    IN << <<"min", PyMin(arr)>>, <<"max", PyMax(arr)>>, <<"mean", StatMean(arr)>>,
          <<"median", StatMedian(arr)>> >>
       \o (IF n > 1 THEN << <<"stdev", StatStdev(arr)>> >> ELSE <<>>)
       \o (IF n > ExamplesMinLen
           THEN << <<"examples",
                     PyList(<<arr[1], arr[n]>>
                            \o (IF mid_idx > 0 /\ mid_idx < n
                                THEN <<arr[mid_idx + 1]>> ELSE <<>>))>> >>
           ELSE <<>>)

\* _compute_array_stats, numeric branch  (src/gui.py:312-332)
NumericStats(arr) ==
    LET n == Len(arr)
        mid_idx == n \div 2
    IN << <<"min", PyMin(arr)>>, <<"max", PyMax(arr)>>, <<"mean", StatMean(arr)>> >>
       \o (IF n > 1
           THEN << <<"median", StatMedian(arr)>>, <<"stdev", StatStdev(arr)>> >>
           ELSE <<>>)
       \o (IF n > ExamplesMinLen
           THEN << <<"examples",
                     PyList(<<arr[1], arr[n]>>
                            \o (IF mid_idx > 0 /\ mid_idx < n
                                THEN <<arr[mid_idx + 1]>> ELSE <<>>))>> >>
           ELSE <<>>)

\* _compute_array_stats, string branch  (src/gui.py:335-367)
StringStats(arr, rnd) ==
    LET n == Len(arr)
        lengths == [i \in DOMAIN arr |-> Len(arr[i].s)]
        lo == CHOOSE x \in Range(lengths) : \A y \in Range(lengths) : x <= y
        hi == CHOOSE x \in Range(lengths) : \A y \in Range(lengths) : x >= y
        total == RatSum([i \in DOMAIN arr |-> <<lengths[i], 1>>])
        all == MostCommonAll(arr)
        top == SubSeq(all, 1, Min2(TopN, Len(all)))
        \* counter.most_common()[:-6:-1]: the last TopN, last first
        bottom == [i \in 1..Min2(TopN, Len(all)) |-> all[Len(all) + 1 - i]]
        \* zero-based indexes
        sample_indices ==
            <<0, n - 1>>
            \o RandomSample([i \in 1..(n - 2) |-> i], Min2(RandomCount, n - 2), rnd)
    IN << <<"min_length", PyInt(lo)>>, <<"max_length", PyInt(hi)>>,
          <<"avg_length", PyFloat(total[1], n)>> >>
       \o (IF n < CounterMaxLen
           THEN << <<"most_common", PyList([i \in DOMAIN top |-> ValueCount(top[i])])>> >>
                \o (IF Len(all) > TopN
                    THEN << <<"least_common",
                              PyList([i \in DOMAIN bottom |-> ValueCount(bottom[i])])>> >>
                    ELSE <<>>)
           ELSE <<>>)
       \o (IF n > ExamplesMinLen
           THEN << <<"examples",
                     PyList([i \in DOMAIN sample_indices |->
                                arr[sample_indices[i] + 1]])>> >>
           ELSE <<>>)

\* _compute_array_stats(arr)  (src/gui.py:295-369)
_compute_array_stats(arr, rnd) ==
    LET all_same_type == \A i \in DOMAIN arr : IsInstanceOfTypeOf(arr[i], arr[1])
    IN IF arr = <<>>
       THEN DictOf(<< <<"count", PyInt(0)>> >>)
       ELSE DictOf(
              << <<"count", PyInt(Len(arr))>>,
                 <<"uniform_type", PyBool(all_same_type)>> >>
              \o (IF all_same_type /\ \A i \in DOMAIN arr : IsNumber(arr[i])
                  THEN NumericStats(arr)
                  ELSE IF all_same_type /\ \A i \in DOMAIN arr : arr[i].t = "str"
                  THEN StringStats(arr, rnd)
                  ELSE <<>>))

\* _compute_value_stats(key, value, parent_obj)  (src/gui.py:239-266)
_compute_value_stats(key, value, parent_obj) ==
    DictOf(
      << <<"type", TypeName(value)>> >>
      \o (IF IsNumber(value)
          THEN << <<"value", value>> >>
               \o (IF Truthy(parent_obj) /\ IsDict(parent_obj) /\ HasKey(parent_obj, key)
                   \* values = [parent_obj[key]]; min(values), max(values)
                   THEN << <<"min", Get(parent_obj, key)>>,
                           <<"max", Get(parent_obj, key)>> >>
                   ELSE <<>>)
          ELSE IF value.t = "str"
          THEN << <<"length", PyInt(Len(value.s))>>,
                  <<"preview",
                    IF Len(value.s) > PreviewLen
                    THEN PyStr(SubSeq(value.s, 1, PreviewLen) \o <<".", ".", ".">>)
                    ELSE value>> >>
          ELSE IF value.t = "NoneType"
          THEN << <<"value", PyStr(<<"n", "u", "l", "l">>)>> >>
          ELSE <<>>))

\* _get_examples(value)  (src/gui.py:268-293); a (key, value) tuple of
\* dict.items() is [t |-> "tuple", key |-> k, value |-> v]
_get_examples(value) ==
    IF value.t \in {"str", "int", "float", "bool", "NoneType"}
    THEN PyList(<<value>>)
    ELSE IF IsList(value)
    THEN IF Len(value.items) <= 3
         THEN value
         ELSE PyList(<<value.items[1],
                       value.items[(Len(value.items) \div 2) + 1],
                       value.items[Len(value.items)]>>)
    ELSE IF IsDict(value)
    THEN PyList([i \in 1..Min2(3, Len(value.keys)) |->
                    [t |-> "tuple", key |-> value.keys[i], value |-> value.vals[i]]])
    ELSE PyList(<<>>)

RECURSIVE _analyze_object(_, _)

\* the last element is taken as the representative:
\*   sample_schema = JsonSchemaAnalyzer._analyze_object(value[-1])
sample_schema_last(value, rnd) ==
    IF IsDict(value.items[Len(value.items)])
    THEN _analyze_object(value.items[Len(value.items)], rnd)
    ELSE EmptyDict

\* sample_schema = JsonSchemaAnalyzer._analyze_object(value[0])
sample_schema(value, rnd) == _analyze_object(value.items[1], rnd)

\* schema[key] for one (key, value) of obj  (src/gui.py:197-235)
SchemaEntry(key, value, obj, rnd) ==
    IF IsDict(value)
    THEN DictOf(<< <<"type", PyStr(<<"o", "b", "j", "e", "c", "t">>)>>,
                   <<"properties", _analyze_object(value, rnd)>> >>)
    ELSE IF IsList(value)
    THEN LET element_type ==
                 IF Truthy(value)
                    /\ \A i \in DOMAIN value.items :
                          IsInstanceOfTypeOf(value.items[i], value.items[1])
                 THEN TypeName(value.items[1])
                 ELSE PyStr(<<"m", "i", "x", "e", "d">>)
         IN DictOf(
              << <<"type", PyStr(<<"a", "r", "r", "a", "y">>)>>,
                 <<"element_type", element_type>>,
                 <<"stats", _compute_array_stats(value.items, rnd)>> >>
              \o (IF Truthy(value) /\ IsDict(value.items[1])
                  THEN << <<"properties", sample_schema(value, rnd)>> >>
                  ELSE <<>>))
    ELSE DictOf(<< <<"type", TypeName(value)>>,
                   <<"value", value>>,
                   <<"stats", _compute_value_stats(key, value, obj)>>,
                   <<"examples", _get_examples(value)>> >>)

\* _analyze_object(obj)  (src/gui.py:192-237)
_analyze_object(obj, rnd) ==
    PyDict(obj.keys,
           [i \in DOMAIN obj.keys |-> SchemaEntry(obj.keys[i], obj.vals[i], obj, rnd)])

\* for key, value in item_schema.items():
\*     if key not in combined_schema: combined_schema[key] = value
RECURSIVE MergeFirstWins(_, _, _)
MergeFirstWins(combined_schema, item_schema, j) ==
    IF j > Len(item_schema.keys) THEN combined_schema
    ELSE MergeFirstWins(
           IF HasKey(combined_schema, item_schema.keys[j])
           THEN combined_schema
           ELSE DictSet(combined_schema, item_schema.keys[j], item_schema.vals[j]),
           item_schema, j + 1)

\* for i, item in enumerate(json_data[:10]): if isinstance(item, dict): ...
RECURSIVE CombineSample(_, _, _, _)
CombineSample(combined_schema, sample, i, rnd) ==
    IF i > Len(sample) THEN combined_schema
    ELSE CombineSample(
           IF IsDict(sample[i])
           THEN MergeFirstWins(combined_schema, _analyze_object(sample[i], rnd), 1)
           ELSE combined_schema,
           sample, i + 1, rnd)

\* the whole array is taken as the sample:  json_data[:]
sample_whole_array(items) == items

\* json_data[:10]
SampleOf(items) == SubSeq(items, 1, Min2(SampleLimit, Len(items)))

\* the statistics are those of the sample:
\*   array_stats = JsonSchemaAnalyzer._compute_array_stats(json_data[:10])
analyze_json_sample_stats(json_data, rnd) ==
    IF IsDict(json_data)
    THEN _analyze_object(json_data, rnd)
    ELSE IF IsList(json_data) /\ Truthy(json_data)
    THEN LET combined_schema == CombineSample(EmptyDict, SampleOf(json_data.items), 1, rnd)
         IN DictSet(combined_schema, "__array_stats",
                    _compute_array_stats(SampleOf(json_data.items), rnd))
    ELSE EmptyDict

\* an empty array is analysed as an array:  `and json_data` left out
analyze_json_any_list(json_data, rnd) ==
    IF IsDict(json_data)
    THEN _analyze_object(json_data, rnd)
    ELSE IF IsList(json_data)
    THEN LET combined_schema == CombineSample(EmptyDict, SampleOf(json_data.items), 1, rnd)
         IN DictSet(combined_schema, "__array_stats",
                    _compute_array_stats(json_data.items, rnd))
    ELSE EmptyDict

\* analyze_json(json_data)  (src/gui.py:168-190)
analyze_json(json_data, rnd) ==
    IF IsDict(json_data)
    THEN _analyze_object(json_data, rnd)
    ELSE IF IsList(json_data) /\ Truthy(json_data)
    THEN LET combined_schema == CombineSample(EmptyDict, SampleOf(json_data.items), 1, rnd)
         IN DictSet(combined_schema, "__array_stats",
                    _compute_array_stats(json_data.items, rnd))
    ELSE EmptyDict

(***************************************************************************)
(* JsonSchemaViewer.update_schema_tree / _add_schema_item                  *)
(* (src/gui.py:523-593).  The tree is the sequence of its items in         *)
(* creation order; an item is                                              *)
(*   [text |-> column 0, type |-> column 1, parent |-> index or 0,         *)
(*    hidden |-> the flag given by setData(0, UserRole, False), which the  *)
(*               delegate negates and _handle_eye_clicked reads,           *)
(*    schema |-> the schema it was made for]                               *)
(* The item that model().setData(index, item, UserRole) hands to the       *)
(* delegate is the item's position in the sequence.                        *)
(***************************************************************************)
TreeItem(text, type, parent, schema) ==
    [text |-> text, type |-> type, parent |-> parent, hidden |-> FALSE,
     schema |-> schema]

S_object == PyStr(<<"o", "b", "j", "e", "c", "t">>)
S_array == PyStr(<<"a", "r", "r", "a", "y">>)

RECURSIVE _add_schema_item(_, _, _, _)

\* for sub_key, sub_schema in schema['properties'].items():
\*     self._add_schema_item(item, sub_key, sub_schema)
RECURSIVE AddProperties(_, _, _, _)
AddProperties(items, parent_item, properties, j) ==
    IF j > Len(properties.keys) THEN items
    ELSE AddProperties(
           _add_schema_item(items, parent_item, properties.keys[j], properties.vals[j]),
           parent_item, properties, j + 1)

\* _add_schema_item(parent_item, key, schema)  (src/gui.py:562-593)
_add_schema_item(items, parent_item, key, schema) ==
    IF IsDict(schema) /\ HasKey(schema, "type")
    THEN LET item_type == Get(schema, "type")
             items1 == Append(items, TreeItem(key, item_type, parent_item, schema))
             tree_item == Len(items1)
         IN IF item_type = S_object /\ HasKey(schema, "properties")
            THEN AddProperties(items1, tree_item, Get(schema, "properties"), 1)
            ELSE IF item_type = S_array /\ HasKey(schema, "element_type")
            THEN LET items2 == Append(items1,
                                      TreeItem("elements", Get(schema, "element_type"),
                                               tree_item, PyNone))
                     element_item == Len(items2)
                 IN IF HasKey(schema, "properties")
                    THEN AddProperties(items2, element_item, Get(schema, "properties"), 1)
                    ELSE items2
            ELSE items1
    ELSE Append(items, TreeItem(key, TypeName(schema), parent_item, schema))

\* the (key, value) pairs of a dict without key k
WithoutKey(d, k) ==
    LET keep == SelectSeq([i \in DOMAIN d.keys |-> i], LAMBDA i : d.keys[i] # k)
    IN PyDict([j \in DOMAIN keep |-> d.keys[keep[j]]],
              [j \in DOMAIN keep |-> d.vals[keep[j]]])

\* update_schema_tree()  (src/gui.py:523-560)
update_schema_tree(info) ==
    IF ~Truthy(info)
    THEN <<>>
    ELSE IF HasKey(info, "__array_stats")
    THEN LET stats == Get(info, "__array_stats")
             \* str(stats.get('count', 0))
             count == IF HasKey(stats, "count") THEN Get(stats, "count") ELSE PyInt(0)
             root == <<TreeItem("[Root]", S_array, 0, PyNone),
                       TreeItem("Count", [t |-> "str_of", v |-> count], 1, PyNone)>>
         IN AddProperties(root, 1, WithoutKey(info, "__array_stats"), 1)
    ELSE AddProperties(<<TreeItem("[Root]", S_object, 0, PyNone)>>, 1, info, 1)

\* JsonSchemaTreeWidget._get_item_path(item)  (src/gui.py:467-478)
RECURSIVE _get_item_path(_, _)
_get_item_path(items, current) ==
    IF current = 0 THEN <<>>
    ELSE _get_item_path(items, items[current].parent)
         \o (IF items[current].text # "[Root]" /\ items[current].text # "elements"
             THEN <<items[current].text>>
             ELSE <<>>)

(***************************************************************************)
(* JsonSchemaViewer._get_schema_at_path  (src/gui.py:700-730)              *)
(***************************************************************************)
StrContains(hay, needle) ==
    \E i \in 0..(Len(hay) - Len(needle)) : SubSeq(hay, i + 1, i + Len(needle)) = needle

ARRAY_STATS == <<"_", "_", "a", "r", "r", "a", "y", "_", "s", "t", "a", "t", "s">>

\* '__array_stats' in schema: "raise" where the operand supports no `in`
InArrayStats(schema) ==
    CASE schema.t = "dict" -> IF HasKey(schema, "__array_stats") THEN "yes" ELSE "no"
      [] schema.t = "list" ->
            IF \E i \in DOMAIN schema.items : schema.items[i] = PyStr(ARRAY_STATS)
            THEN "yes" ELSE "no"
      [] schema.t = "str" -> IF StrContains(schema.s, ARRAY_STATS) THEN "yes" ELSE "no"
      [] OTHER -> "raise"

\* the loop body from segment i (one-based) on
RECURSIVE ResolveFrom(_, _, _)
ResolveFrom(schema, path, i) ==
    IF i > Len(path) THEN schema
    ELSE LET segment == path[i]
             marked == InArrayStats(schema)
         IN IF marked = "raise" THEN Raise("TypeError")
            ELSE IF marked = "yes" /\ i = 1
            THEN ResolveFrom(schema, path, i + 1)
            ELSE IF IsDict(schema)
            THEN IF HasKey(schema, segment)
                 THEN ResolveFrom(Get(schema, segment), path, i + 1)
                 ELSE IF HasKey(schema, "properties")
                         /\ HasKey(Get(schema, "properties"), segment)
                 THEN ResolveFrom(Get(Get(schema, "properties"), segment), path, i + 1)
                 ELSE IF HasKey(schema, "type") /\ Get(schema, "type") = S_array
                         /\ HasKey(schema, "properties")
                 THEN IF HasKey(Get(schema, "properties"), segment)
                      THEN ResolveFrom(Get(Get(schema, "properties"), segment), path, i + 1)
                      ELSE PyNone
                 ELSE PyNone
            ELSE PyNone

_get_schema_at_path(info, path) ==
    IF path = <<>> THEN info ELSE ResolveFrom(info, path, 1)

(***************************************************************************)
(* The state after JsonViewerWindow.__init__  (src/gui.py:1031-1094),      *)
(* JsonSchemaViewer.__init__ (:484-511), JsonSchemaTreeWidget.__init__     *)
(* (:434-446)                                                              *)
(***************************************************************************)
\* JqQueryInput.__init__  (src/gui.py:96-101)
QueryInputInit ==
    /\ query_text = <<>>
    /\ history = <<>>
    /\ history_index = -1
    /\ current_input = <<>>

\* a block of the chat display
Block(kind, id) == [kind |-> kind, id |-> id]

\* ChatWidget.__init__  (src/gui.py:739-743): the welcome line of init_ui
\* and the lines of load_models; no thread started, no slot call pending
ChatWidgetInit ==
    /\ chat_display = <<Block("welcome", 0), Block("models", 0)>>
    /\ event_queue = <<>>
    /\ workers = <<>>
    /\ query_calls = <<>>

WindowInit ==
    /\ QueryInputInit
    /\ ChatWidgetInit
    /\ current_json_file = "none"
    /\ json_content = PyNone
    /\ parsed_json = PyNone
    /\ hidden_paths = {}
    /\ json_viewer = [kind |-> "empty"]
    /\ instruction_label = "drop"

SchemaViewerInit ==
    /\ schema_json_data = PyNone
    /\ schema_info = PyNone
    /\ tree_items = <<>>
    /\ tree_hidden_paths = {}

(***************************************************************************)
(* Bounded JSON documents and hidden-path sets                             *)
(***************************************************************************)
MaxInt == 1       \* integers 1..MaxInt occur as scalar values
MaxLen == 2       \* longest array drawn for the filter
MaxHidden == 2    \* most paths in a drawn hidden-path set

KeySeqs == {<<>>, <<"a">>, <<"b">>, <<"a", "b">>, <<"b", "a">>}
ObjsOver(S) == UNION {{PyDict(ks, vs) : vs \in [DOMAIN ks -> S]} : ks \in KeySeqs}
ListsOver(S, n) == UNION {{PyList(xs) : xs \in [1..k -> S]} : k \in 0..n}

Leaf == {PyInt(n) : n \in 1..MaxInt} \cup {PyNone}
Flat == ObjsOver(Leaf)
FlatTiny == {EmptyDict, PyDict(<<"a">>, <<PyInt(1)>>),
             PyDict(<<"a", "b">>, <<PyInt(1), PyInt(1)>>)}
Inner == Leaf \cup Flat \cup ListsOver(FlatTiny, MaxLen)
Small == {PyInt(1), PyDict(<<"a">>, <<PyInt(1)>>)}
RootElems == FlatTiny \cup {PyList(<<PyDict(<<"a">>, <<PyInt(1)>>)>>),
                            PyDict(<<"a">>, <<PyDict(<<"b">>, <<PyInt(1)>>)>>)}
FilterDocs ==
    Leaf
    \cup {PyDict(<<"a">>, <<x>>) : x \in Inner}
    \cup {PyDict(<<"a", "b">>, <<x, y>>) : x \in Inner, y \in Small}
    \cup ListsOver(RootElems, MaxLen)

\* tuples of real key segments; <<>> is the path of the "[Root]" item
HiddenPathPool == {<<>>, <<"a">>, <<"b">>, <<"a", "a">>, <<"a", "b">>, <<"b", "a">>}
HiddenSets == {H \in SUBSET HiddenPathPool : Cardinality(H) <= MaxHidden}

(***************************************************************************)
(* SpecFilter: filter_json_by_visibility applied to drawn inputs           *)
(***************************************************************************)
FilterInit ==
    /\ WindowInit /\ SchemaViewerInit
    /\ op = "idle"
    /\ input \in {[v |-> v, H |-> H] : v \in FilterDocs, H \in HiddenSets}
    /\ output = PyNone

\* filter(v, H)
FilterOnce ==
    /\ op = "idle"
    /\ op' = "filter"
    /\ output' = [once |-> filter_json_by_visibility(input.v, input.H)]
    /\ UNCHANGED <<input, winVars, schemaVars, widgetVars>>

\* filter(filter(v, H), H)
FilterAgain ==
    /\ op = "filter"
    /\ op' = "again"
    /\ output' = [once |-> output.once,
                  twice |-> filter_json_by_visibility(output.once, input.H)]
    /\ UNCHANGED <<input, winVars, schemaVars, widgetVars>>

\* filter(v, H1) for a subset H1 of H
FilterSubset ==
    /\ op = "filter"
    /\ \E H1 \in SUBSET input.H :
          /\ op' = "subset"
          /\ output' = [once |-> output.once, H1 |-> H1,
                        sub |-> filter_json_by_visibility(input.v, H1)]
    /\ UNCHANGED <<input, winVars, schemaVars, widgetVars>>

FilterNext == FilterOnce \/ FilterAgain \/ FilterSubset
SpecFilter == FilterInit /\ [][FilterNext]_vars

\* the accumulated key paths that occur in a value (array elements reuse
\* the array's path)
RECURSIVE PresentPaths(_, _)
PresentPaths(v, path) ==
    IF IsDict(v)
    THEN UNION {{Append(path, v.keys[i])}
                  \cup PresentPaths(v.vals[i], Append(path, v.keys[i]))
                : i \in DOMAIN v.keys}
    ELSE IF IsList(v)
    THEN UNION {PresentPaths(v.items[i], path) : i \in DOMAIN v.items}
    ELSE {}

\* a is b with only object keys removed: same kinds, arrays of the same
\* length, the keys of a a subsequence of the keys of b in the same order
RECURSIVE SubTree(_, _)
IsSubSeq(ka, kb) ==
    /\ \A i \in DOMAIN ka : IndexOf(kb, ka[i]) # 0
    /\ \A i, j \in DOMAIN ka : i < j => IndexOf(kb, ka[i]) < IndexOf(kb, ka[j])
SubTree(a, b) ==
    IF IsDict(b)
    THEN /\ IsDict(a)
         /\ IsSubSeq(a.keys, b.keys)
         /\ \A i \in DOMAIN a.keys : SubTree(a.vals[i], Get(b, a.keys[i]))
    ELSE IF IsList(b)
    THEN /\ IsList(a)
         /\ Len(a.items) = Len(b.items)
         /\ \A i \in DOMAIN a.items : SubTree(a.items[i], b.items[i])
    ELSE a = b

\* C1: filtering is idempotent: filter(filter(v, H), H) = filter(v, H) for
\* every drawn value v and hidden-path set H.
C1_Idempotent ==
    op = "again" => output.twice = output.once

\* C1 witness: a second filtering has run on a result from which a nested
\* key and a key inside array elements were removed.
C1_Witness ==
    /\ op = "again"
    /\ input.H = {<<"a">>, <<"a", "b">>}
    /\ input.v = PyList(<<PyDict(<<"a", "b">>, <<PyInt(1), PyInt(1)>>), EmptyDict>>)
    /\ output.once = PyList(<<PyDict(<<"b">>, <<PyInt(1)>>), EmptyDict>>)
    /\ output.twice = output.once

\* C2: filtering is monotonic in the hidden set: for H1 a subset of H, no
\* path of H1 occurs in filter(v, H), and filter(v, H) is filter(v, H1)
\* with only object keys removed (H1 = {} gives v itself).
C2_Monotonic ==
    op = "subset" =>
        /\ PresentPaths(output.once, <<>>) \cap output.H1 = {}
        /\ PresentPaths(output.once, <<>>) \subseteq PresentPaths(output.sub, <<>>)
        /\ SubTree(output.once, output.sub)
        /\ (output.H1 = {} => output.sub = input.v)

\* C2 witness: H1 is a proper non-empty subset of H, and the larger set
\* removes a key that the smaller one keeps.
C2_Witness ==
    /\ op = "subset"
    /\ output.H1 = {<<"a", "b">>}
    /\ input.H = {<<"a", "b">>, <<"b">>}
    /\ input.v = PyDict(<<"a", "b">>,
                        <<PyList(<<PyDict(<<"a", "b">>, <<PyInt(1), PyInt(1)>>)>>),
                          PyInt(1)>>)
    /\ output.sub = PyDict(<<"a", "b">>,
                           <<PyList(<<PyDict(<<"a">>, <<PyInt(1)>>)>>), PyInt(1)>>)
    /\ output.once = PyDict(<<"a">>, <<PyList(<<PyDict(<<"a">>, <<PyInt(1)>>)>>)>>)

\* C3: with an empty hidden-path set the filter returns a value equal to
\* its input.
C3_EmptyHiddenIdentity ==
    (op = "filter" /\ input.H = {}) => output.once = input.v

\* C3 witness: the filter has run with no hidden path on a nested document
\* (an object holding an array of objects).
C3_Witness ==
    /\ op = "filter"
    /\ input.H = {}
    /\ input.v = PyDict(<<"a", "b">>,
                        <<PyList(<<PyDict(<<"a">>, <<PyInt(1)>>), EmptyDict>>),
                          PyDict(<<"a">>, <<PyInt(1)>>)>>)
    /\ output.once = input.v

(***************************************************************************)
(* SpecResolve: set_json_data on a drawn document, then                    *)
(* show_attribute_details on an item of the tree, or                       *)
(* _get_schema_at_path on a drawn path                                     *)
(***************************************************************************)
MaxRnd == 1        \* the draws of random.sample are 0..MaxRnd
MaxPathLen == 3    \* longest drawn path

RndDraws == [1..RandomCount -> 0..MaxRnd]

ProbeSegments == {"a", "b", "value", "stats", "count", "type", "properties"}
ProbePaths == UNION {[1..k -> ProbeSegments] : k \in 0..MaxPathLen}

ResolveInit ==
    /\ WindowInit /\ SchemaViewerInit
    /\ op = "idle"
    /\ input \in {[v |-> v] : v \in FilterDocs}
    /\ output = PyNone

\* JsonSchemaViewer.set_json_data  (src/gui.py:517-521)
SetJsonData ==
    /\ op = "idle"
    /\ \E rnd \in RndDraws :
          LET info == analyze_json(input.v, rnd)
          IN output' = [schema_info |-> info, tree |-> update_schema_tree(info)]
    /\ op' = "schema"
    /\ UNCHANGED <<input, winVars, schemaVars, widgetVars>>

\* JsonSchemaViewer.show_attribute_details(item, column), up to the lookup
\* (src/gui.py:595-609)
ShowAttributeDetails ==
    /\ op = "schema"
    /\ \E item \in DOMAIN output.tree :
          LET path == _get_item_path(output.tree, item)
          IN output' = [schema_info |-> output.schema_info, tree |-> output.tree,
                        item |-> item, path |-> path,
                        schema |-> IF path = <<>>
                                   THEN [t |-> "return"]
                                   ELSE _get_schema_at_path(output.schema_info, path)]
    /\ op' = "details"
    /\ UNCHANGED <<input, winVars, schemaVars, widgetVars>>

\* _get_schema_at_path(path) on any path
GetSchemaAtPath ==
    /\ op = "schema"
    /\ \E path \in ProbePaths :
          output' = [schema_info |-> output.schema_info, tree |-> output.tree,
                     path |-> path,
                     schema |-> _get_schema_at_path(output.schema_info, path)]
    /\ op' = "resolve"
    /\ UNCHANGED <<input, winVars, schemaVars, widgetVars>>

ResolveNext == SetJsonData \/ ShowAttributeDetails \/ GetSchemaAtPath
SpecResolve == ResolveInit /\ [][ResolveNext]_vars

\* an item made by _add_schema_item for a key of the schema
IsAttributeItem(it) == it.schema.t = "dict"

\* C4: for every attribute item of the tree, resolving the path of the item
\* gives the schema entry the item was made for.
C4_RoundTrip ==
    (op = "details" /\ IsAttributeItem(output.tree[output.item]))
        => output.schema = output.tree[output.item].schema

\* C5: _get_schema_at_path never raises: on every path it returns a schema
\* or None.
C5_NeverRaises ==
    op = "resolve" => output.schema.t # "raise"

(***************************************************************************)
(* The session: files on disk, the query engine, and the handlers of       *)
(* JsonViewerWindow and of the schema tree.                                *)
(*                                                                         *)
(* A text is the sequence of JSON documents it spells (white space apart), *)
(* or junk: [t |-> "text", docs |-> <<v1,..>>, junk |-> FALSE].            *)
(* In the session, op is the handler that ran last, input its arguments    *)
(* and output the outcome of the last run_jq_query since the last load.    *)
(***************************************************************************)
JsonText(docs) == [t |-> "text", docs |-> docs, junk |-> FALSE]
JunkText == [t |-> "text", docs |-> <<>>, junk |-> TRUE]

\* json.loads(text): exactly one document, else JSONDecodeError
json_loads(text) ==
    IF ~text.junk /\ Len(text.docs) = 1
    THEN text.docs[1]
    ELSE Raise("JSONDecodeError")

\* json.dumps(value, indent=4)
json_dumps(value) == JsonText(<<value>>)

\* `if self.json_content`: None and the empty string are false
ContentTruthy(content) ==
    content.t = "text" /\ (content.junk \/ content.docs # <<>>)

\* str.strip()
Whitespace == {" ", "\t", "\n", "\r"}
RECURSIVE LStrip(_)
LStrip(s) ==
    IF s # <<>> /\ Head(s) \in Whitespace THEN LStrip(Tail(s)) ELSE s
RECURSIVE RStrip(_)
RStrip(s) ==
    IF s # <<>> /\ s[Len(s)] \in Whitespace
    THEN RStrip(SubSeq(s, 1, Len(s) - 1))
    ELSE s
Strip(s) == RStrip(LStrip(s))

\* ---- the files on disk ----
ObjectDoc == PyDict(<<"a", "b">>, <<PyInt(1), PyDict(<<"a">>, <<PyInt(1)>>)>>)
ArrayDoc == PyList(<<PyDict(<<"a">>, <<PyInt(1)>>)>>)

FileNames == {"object.json", "array.json", "empty.json", "broken.json", "missing.json"}

\* open(file_path, 'r') succeeds
Readable(file_path) == file_path # "missing.json"

\* f.read()
FileText(file_path) ==
    CASE file_path = "object.json" -> JsonText(<<ObjectDoc>>)
      [] file_path = "array.json" -> JsonText(<<ArrayDoc>>)
      [] file_path = "empty.json" -> JsonText(<<EmptyDict>>)
      [] file_path = "broken.json" -> JunkText

\* ---- the query engine: subprocess.run(["jq", query, file]) ----
\* the queries typed into the query field
Q_identity == <<".">>
Q_a == <<".", "a">>
Q_b == <<".", "b">>
Q_each == <<".", "[", "]">>
Q_bad == <<"(">>
QueryTexts == {<<" ">>, Q_identity, <<" ", ".", "b", " ">>, Q_each, Q_bad}

JqResult(returncode, stdout) == [returncode |-> returncode, stdout |-> stdout]

\* jq on one document: `.`, `.key`, `.[]`; anything else does not compile
Jq(query, doc) ==
    CASE query = Q_identity -> JqResult(0, JsonText(<<doc>>))
      [] query \in {Q_a, Q_b} ->
            LET key == query[2]
            IN IF IsDict(doc)
               THEN JqResult(0, JsonText(<<IF HasKey(doc, key) THEN Get(doc, key)
                                                               ELSE PyNone>>))
               ELSE IF doc = PyNone THEN JqResult(0, JsonText(<<PyNone>>))
               ELSE JqResult(5, JunkText)
      [] query = Q_each ->
            IF IsDict(doc) THEN JqResult(0, JsonText(doc.vals))
            ELSE IF IsList(doc) THEN JqResult(0, JsonText(doc.items))
            ELSE JqResult(5, JunkText)
      [] OTHER -> JqResult(3, JunkText)

\* JsonSchemaViewer.set_json_data(json_data)  (src/gui.py:517-521); the
\* rebuilt items are all marked not hidden, the tree's own set is kept
set_json_data(json_data, rnd) ==
    LET info == analyze_json(json_data, rnd)
    IN /\ schema_json_data' = json_data
       /\ schema_info' = info
       /\ tree_items' = update_schema_tree(info)
       /\ UNCHANGED tree_hidden_paths

Shown(text) == [kind |-> "text", text |-> text]

\* the load keeps the hidden paths: line 1164 left out
load_json_file_keep_hidden(file_path) ==
    /\ op' = "load"
    /\ input' = [file_path |-> file_path]
    /\ output' = [kind |-> "none"]
    /\ IF ~Readable(file_path)
       THEN /\ json_viewer' = [kind |-> "open_error"]
            /\ instruction_label' = [kind |-> "error_loading_file"]
            /\ current_json_file' = "none"
            /\ json_content' = PyNone
            /\ parsed_json' = PyNone
            /\ UNCHANGED <<hidden_paths, schemaVars>>
       ELSE LET content == FileText(file_path)
                parsed == json_loads(content)
            IN /\ UNCHANGED hidden_paths
               /\ IF parsed.t = "raise"
                  THEN /\ json_viewer' = [kind |-> "invalid_json", content |-> content]
                       /\ instruction_label' =
                              [kind |-> "error_loading_json", file |-> file_path]
                       /\ current_json_file' = "none"
                       /\ json_content' = PyNone
                       /\ parsed_json' = PyNone
                       /\ UNCHANGED schemaVars
                  ELSE /\ json_content' = content
                       /\ current_json_file' = file_path
                       /\ parsed_json' = parsed
                       /\ json_viewer' = Shown(json_dumps(parsed))
                       /\ instruction_label' = [kind |-> "loaded", file |-> file_path]
                       /\ set_json_data(parsed, NoDraws)

\* JsonViewerWindow.load_json_file(file_path)  (src/gui.py:1155-1188)
load_json_file(file_path) ==
    /\ op' = "load"
    /\ input' = [file_path |-> file_path]
    /\ output' = [kind |-> "none"]
    /\ IF ~Readable(file_path)
       \* except Exception: open() failed before line 1164
       THEN /\ json_viewer' = [kind |-> "open_error"]
            /\ instruction_label' = [kind |-> "error_loading_file"]
            /\ current_json_file' = "none"
            /\ json_content' = PyNone
            /\ parsed_json' = PyNone
            /\ UNCHANGED <<hidden_paths, schemaVars>>
       ELSE LET content == FileText(file_path)
                parsed == json_loads(content)
            IN /\ hidden_paths' = {}
               /\ IF parsed.t = "raise"
                  \* except json.JSONDecodeError
                  THEN /\ json_viewer' = [kind |-> "invalid_json", content |-> content]
                       /\ instruction_label' =
                              [kind |-> "error_loading_json", file |-> file_path]
                       /\ current_json_file' = "none"
                       /\ json_content' = PyNone
                       /\ parsed_json' = PyNone
                       /\ UNCHANGED schemaVars
                  ELSE /\ json_content' = content
                       /\ current_json_file' = file_path
                       /\ parsed_json' = parsed
                       /\ json_viewer' = Shown(json_dumps(parsed))
                       /\ instruction_label' = [kind |-> "loaded", file |-> file_path]
                       /\ set_json_data(parsed, NoDraws)

\* JsonViewerWindow.reset_to_original_json()  (src/gui.py:1190-1201)
reset_to_original_json ==
    IF ContentTruthy(json_content)
    THEN LET parsed == json_loads(json_content)
         IN IF parsed.t = "raise"
            THEN /\ json_viewer' = Shown(json_content)
                 /\ UNCHANGED <<parsed_json, instruction_label>>
            ELSE /\ parsed_json' = parsed
                 /\ json_viewer' =
                        Shown(json_dumps(filter_json_by_visibility(parsed, hidden_paths)))
                 /\ instruction_label' = [kind |-> "loaded", file |-> current_json_file]
    ELSE UNCHANGED <<parsed_json, json_viewer, instruction_label>>

\* a successful query makes its output the document and clears the hidden
\* paths:  self.parsed_json = output_json; self.hidden_paths = set()
run_jq_query_replacing(text) ==
    /\ op' = "query"
    /\ input' = [query |-> text]
    /\ IF current_json_file = "none"
       THEN /\ output' = [kind |-> "warning"]
            /\ UNCHANGED <<winVars, schemaVars>>
       ELSE LET query == Strip(text)
            IN IF query = <<>>
               THEN /\ output' = [kind |-> "reset"]
                    /\ reset_to_original_json
                    /\ UNCHANGED <<current_json_file, json_content, hidden_paths,
                                   schemaVars>>
               ELSE \/ /\ output' = [kind |-> "exception"]
                       /\ instruction_label' = [kind |-> "error_running", query |-> query]
                       /\ UNCHANGED <<current_json_file, json_content, parsed_json,
                                      hidden_paths, json_viewer, schemaVars>>
                    \/ LET result == Jq(query, json_loads(FileText(current_json_file)))
                           output_json == json_loads(result.stdout)
                       IN IF result.returncode = 0
                          THEN /\ instruction_label' = [kind |-> "executed", query |-> query]
                               /\ IF output_json.t # "raise"
                                  THEN /\ output' = [kind |-> "json", value |-> output_json]
                                       /\ parsed_json' = output_json
                                       /\ hidden_paths' = {}
                                       /\ json_viewer' = Shown(json_dumps(output_json))
                                       /\ set_json_data(output_json, NoDraws)
                                       /\ UNCHANGED <<current_json_file, json_content>>
                                  ELSE /\ output' = [kind |-> "text"]
                                       /\ json_viewer' = Shown(result.stdout)
                                       /\ UNCHANGED <<current_json_file, json_content,
                                                      parsed_json, hidden_paths, schemaVars>>
                          ELSE /\ output' = [kind |-> "error"]
                               /\ json_viewer' = [kind |-> "jq_error",
                                                  returncode |-> result.returncode]
                               /\ instruction_label' = [kind |-> "failed", query |-> query]
                               /\ UNCHANGED <<current_json_file, json_content, parsed_json,
                                              hidden_paths, schemaVars>>

\* mutant: a jq error drops the document and the hidden paths
run_jq_query_error_forgets(text) ==
    /\ op' = "query"
    /\ input' = [query |-> text]
    /\ IF current_json_file = "none"
       \* QMessageBox.warning
       THEN /\ output' = [kind |-> "warning"]
            /\ UNCHANGED <<winVars, schemaVars>>
       ELSE LET query == Strip(text)
            IN IF query = <<>>
               THEN /\ output' = [kind |-> "reset"]
                    /\ reset_to_original_json
                    /\ UNCHANGED <<current_json_file, json_content, hidden_paths,
                                   schemaVars>>
               ELSE \* subprocess.run raises: QMessageBox.critical
                    \/ /\ output' = [kind |-> "exception"]
                       /\ instruction_label' = [kind |-> "error_running", query |-> query]
                       /\ UNCHANGED <<current_json_file, json_content, parsed_json,
                                      hidden_paths, json_viewer, schemaVars>>
                    \/ LET result == Jq(query, json_loads(FileText(current_json_file)))
                           output_json == json_loads(result.stdout)
                       IN IF result.returncode = 0
                          THEN /\ instruction_label' = [kind |-> "executed", query |-> query]
                               /\ IF output_json.t # "raise"
                                  THEN /\ output' = [kind |-> "json", value |-> output_json]
                                       /\ json_viewer' =
                                              Shown(json_dumps(
                                                filter_json_by_visibility(output_json,
                                                                          hidden_paths)))
                                       /\ set_json_data(output_json, NoDraws)
                                       /\ UNCHANGED <<current_json_file, json_content,
                                                      parsed_json, hidden_paths>>
                                  \* except json.JSONDecodeError: the raw output
                                  ELSE /\ output' = [kind |-> "text"]
                                       /\ json_viewer' = Shown(result.stdout)
                                       /\ UNCHANGED <<current_json_file, json_content,
                                                      parsed_json, hidden_paths, schemaVars>>
                          ELSE /\ output' = [kind |-> "error"]
                               /\ json_viewer' = [kind |-> "jq_error",
                                                  returncode |-> result.returncode]
                               /\ instruction_label' = [kind |-> "failed", query |-> query]
                               /\ parsed_json' = PyNone
                               /\ hidden_paths' = {}
                               /\ UNCHANGED <<current_json_file, json_content, schemaVars>>

\* JsonViewerWindow.run_jq_query()  (src/gui.py:1203-1242), with the text of
\* the query field as set by the user or by set_query_from_chat (:1096-1099)
run_jq_query(text) ==
    /\ op' = "query"
    /\ input' = [query |-> text]
    /\ IF current_json_file = "none"
       \* QMessageBox.warning
       THEN /\ output' = [kind |-> "warning"]
            /\ UNCHANGED <<winVars, schemaVars>>
       ELSE LET query == Strip(text)
            IN IF query = <<>>
               THEN /\ output' = [kind |-> "reset"]
                    /\ reset_to_original_json
                    /\ UNCHANGED <<current_json_file, json_content, hidden_paths,
                                   schemaVars>>
               ELSE \* subprocess.run raises: QMessageBox.critical
                    \/ /\ output' = [kind |-> "exception"]
                       /\ instruction_label' = [kind |-> "error_running", query |-> query]
                       /\ UNCHANGED <<current_json_file, json_content, parsed_json,
                                      hidden_paths, json_viewer, schemaVars>>
                    \/ LET result == Jq(query, json_loads(FileText(current_json_file)))
                           output_json == json_loads(result.stdout)
                       IN IF result.returncode = 0
                          THEN /\ instruction_label' = [kind |-> "executed", query |-> query]
                               /\ IF output_json.t # "raise"
                                  THEN /\ output' = [kind |-> "json", value |-> output_json]
                                       /\ json_viewer' =
                                              Shown(json_dumps(
                                                filter_json_by_visibility(output_json,
                                                                          hidden_paths)))
                                       /\ set_json_data(output_json, NoDraws)
                                       /\ UNCHANGED <<current_json_file, json_content,
                                                      parsed_json, hidden_paths>>
                                  \* except json.JSONDecodeError: the raw output
                                  ELSE /\ output' = [kind |-> "text"]
                                       /\ json_viewer' = Shown(result.stdout)
                                       /\ UNCHANGED <<current_json_file, json_content,
                                                      parsed_json, hidden_paths, schemaVars>>
                          ELSE /\ output' = [kind |-> "error"]
                               /\ json_viewer' = [kind |-> "jq_error",
                                                  returncode |-> result.returncode]
                               /\ instruction_label' = [kind |-> "failed", query |-> query]
                               /\ UNCHANGED <<current_json_file, json_content, parsed_json,
                                              hidden_paths, schemaVars>>

\* JsonViewerWindow.toggle_attribute_visibility(path, is_visible)
\* (src/gui.py:1109-1122)
toggle_attribute_visibility(path, is_visible) ==
    LET hidden == IF is_visible THEN hidden_paths \ {path}
                                ELSE hidden_paths \cup {path}
    IN /\ hidden_paths' = hidden
       /\ json_viewer' =
              IF Truthy(parsed_json)
              THEN Shown(json_dumps(filter_json_by_visibility(parsed_json, hidden)))
              ELSE json_viewer
       /\ UNCHANGED <<current_json_file, json_content, parsed_json, instruction_label>>

\* JsonSchemaTreeWidget._handle_eye_clicked(item)  (src/gui.py:448-460); the
\* signal goes through JsonSchemaViewer._handle_visibility_changed
\* (:513-515) to the window's slot (connected at :1086)
_handle_eye_clicked(item) ==
    LET path == _get_item_path(tree_items, item)
        is_hidden == tree_items'[item].hidden
    IN /\ tree_hidden_paths' = IF is_hidden THEN tree_hidden_paths \cup {path}
                                            ELSE tree_hidden_paths \ {path}
       /\ toggle_attribute_visibility(path, ~is_hidden)
       /\ op' = "toggle"
       /\ input' = [item |-> item, path |-> path, is_visible |-> ~is_hidden]
       /\ UNCHANGED output

\* EyeIconDelegate.editorEvent on the eye of an item  (src/gui.py:412-428):
\* the item's flag is negated, then eye_clicked is emitted
editorEvent(item) ==
    /\ tree_items' = [tree_items EXCEPT ![item].hidden = ~tree_items[item].hidden]
    /\ _handle_eye_clicked(item)
    /\ UNCHANGED <<schema_json_data, schema_info>>

(***************************************************************************)
(* Spec: the session of one window                                         *)
(***************************************************************************)
Init ==
    /\ WindowInit /\ SchemaViewerInit
    /\ op = "init"
    /\ input = PyNone
    /\ output = [kind |-> "none"]

\* dropEvent (src/gui.py:1105-1107): a file is dropped on the window
LoadFile ==
    /\ \E file_path \in FileNames : load_json_file(file_path)
    /\ UNCHANGED widgetVars

\* the Run button (src/gui.py:1051) with the text then in the query field
RunQuery ==
    /\ \E text \in QueryTexts : run_jq_query(text)
    /\ UNCHANGED widgetVars

\* a click on the eye of an item of the schema tree
EyeClicked ==
    /\ \E item \in DOMAIN tree_items : editorEvent(item)
    /\ UNCHANGED widgetVars

Next == LoadFile \/ RunQuery \/ EyeClicked
Spec == Init /\ [][Next]_vars

\* what the viewer shows for a document under the hidden paths
Displayed(value) ==
    Shown(json_dumps(filter_json_by_visibility(value, hidden_paths)))

\* C6: after a successful query whose output parses as JSON the output is
\* the current document: the viewer shows filter(output, hidden), the schema
\* is analyze(output), and after every later eye toggle the viewer still
\* shows filter(output, hidden) for the hidden set of that moment.
C6_QueryOutputIsCurrent ==
    /\ (op = "query" /\ output.kind = "json") =>
          /\ json_viewer = Displayed(output.value)
          /\ schema_info = analyze_json(output.value, NoDraws)
    /\ (op = "toggle" /\ output.kind = "json") =>
          json_viewer = Displayed(output.value)

\* C7 as stated: the hidden-path set changes only in a toggle (or in the
\* load that empties it), and it is empty right after a document is loaded
\* and right after a query has produced a JSON result.
C7_EmptyAfterLoadAndQuery ==
    [][/\ (hidden_paths' # hidden_paths) =>
              (op' = "toggle" \/ (op' = "load" /\ hidden_paths' = {}))
       /\ (op' = "load" /\ current_json_file' # "none") => hidden_paths' = {}
       /\ (op' = "query" /\ output'.kind = "json") => hidden_paths' = {}]_vars

\* C7 amended: the hidden-path set changes only in a toggle or in a load,
\* which empties it; it is empty right after a document is loaded; a query
\* that produces a JSON result leaves it as it was.
C7_ChangedOnlyByToggleOrLoad ==
    [][/\ (hidden_paths' # hidden_paths) =>
              (op' = "toggle" \/ (op' = "load" /\ hidden_paths' = {}))
       /\ (op' = "load" /\ current_json_file' # "none") => hidden_paths' = {}
       /\ (op' = "query" /\ output'.kind = "json") => hidden_paths' = hidden_paths]_vars

\* C7 witness: a query has just produced a JSON result for a document with
\* a hidden key, and the result is shown without that key.
C7_Witness ==
    /\ op = "query"
    /\ output.kind = "json"
    /\ output.value = PyDict(<<"a">>, <<PyInt(1)>>)
    /\ hidden_paths = {<<"a">>}
    /\ json_viewer = Shown(json_dumps(EmptyDict))

\* C8: every execution of run_jq_query (no file, empty query, engine
\* failure, non-JSON output, JSON output) leaves the window's hidden-path
\* set unchanged; a load of a readable file sets it to the empty set.
C8_QueriesKeepLoadResets ==
    [][/\ (op' = "query"
             /\ output'.kind \in {"warning", "reset", "exception", "error", "text", "json"})
              => hidden_paths' = hidden_paths
       /\ (op' = "load" /\ Readable(input'.file_path)) => hidden_paths' = {}]_vars

\* C8 witness: a file was reloaded after paths had been hidden (the tree
\* widget's own set still holds them) and the window's set is empty.
C8_Witness ==
    /\ op = "load"
    /\ input.file_path = "object.json"
    /\ current_json_file = "object.json"
    /\ tree_hidden_paths = {<<"a">>, <<"b", "a">>}
    /\ hidden_paths = {}

(***************************************************************************)
(* SpecAnalyze: analyze_json on a drawn root array, then _analyze_object   *)
(* on an object that holds the same array under a key                      *)
(***************************************************************************)
MaxArrayLen == 12    \* longest drawn root array (more than SampleLimit)

AnalyzeElems ==
    {PyDict(<<"x">>, <<PyInt(1)>>),
     PyDict(<<"y">>, <<PyInt(1)>>),
     PyDict(<<"y", "x">>, <<PyInt(1), PyNone>>),
     PyDict(<<"__array_stats">>, <<PyInt(1)>>)}
Fillers == {EmptyDict, PyInt(1), PyDict(<<"x">>, <<PyDict(<<"y">>, <<PyInt(1)>>)>>)}

\* the arrays of length n that hold e1 at p, e2 at q and the filler elsewhere
ArraysOfLen(n) ==
    {[i \in 1..n |-> IF i = p THEN e1 ELSE IF i = q THEN e2 ELSE f] :
        p \in 1..n, q \in 1..n, e1 \in AnalyzeElems, e2 \in AnalyzeElems, f \in Fillers}
AnalyzeArrays == UNION {ArraysOfLen(n) : n \in 1..MaxArrayLen}

AnalyzeInit ==
    /\ WindowInit /\ SchemaViewerInit
    /\ op = "idle"
    /\ input \in {[arr |-> arr] : arr \in AnalyzeArrays}
    /\ output = PyNone

\* analyze_json(arr): the array is the document root
AnalyzeRoot ==
    /\ op = "idle"
    /\ op' = "root"
    /\ output' = [root |-> analyze_json(PyList(input.arr), NoDraws)]
    /\ UNCHANGED <<input, winVars, schemaVars, widgetVars>>

\* _analyze_object({"k": arr}): the array is the value of an object key
AnalyzeNested ==
    /\ op = "root"
    /\ op' = "nested"
    /\ output' = [root |-> output.root,
                  nested |-> Get(_analyze_object(PyDict(<<"k">>, <<PyList(input.arr)>>),
                                                 NoDraws), "k")]
    /\ UNCHANGED <<input, winVars, schemaVars, widgetVars>>

AnalyzeNext == AnalyzeRoot \/ AnalyzeNested
SpecAnalyze == AnalyzeInit /\ [][AnalyzeNext]_vars

\* the keys of an inferred schema other than the marker under which
\* analyze_json stores the statistics of a root array
PropertyKeys(schema) == Range(schema.keys) \ {"__array_stats"}

\* the indexes (one-based) of the object elements among the first ten
SampledObjects(arr) == {i \in 1..10 : i <= Len(arr) /\ IsDict(arr[i])}

\* the first sampled object element that defines key
FirstDefining(arr, key) ==
    CHOOSE i \in SampledObjects(arr) :
        /\ HasKey(arr[i], key)
        /\ \A j \in SampledObjects(arr) : HasKey(arr[j], key) => i <= j

\* C9: for a non-empty root array the property keys of analyze_json are
\* exactly the keys of the object elements at indexes 0..9, each mapped to
\* the schema that _analyze_object derives from the first of these elements
\* that defines it; a key found only at index 10 or later is absent.
C9_RootArraySample ==
    op \in {"root", "nested"} =>
        LET arr == input.arr
            schema == output.root
            sampled_keys ==
                UNION {Range(arr[i].keys) : i \in SampledObjects(arr)} \ {"__array_stats"}
            late_keys ==
                UNION {Range(arr[i].keys) : i \in {j \in 11..Len(arr) : IsDict(arr[j])}}
                    \ {"__array_stats"}
        IN /\ PropertyKeys(schema) = sampled_keys
           /\ \A key \in sampled_keys :
                 Get(schema, key)
                     = Get(_analyze_object(arr[FirstDefining(arr, key)], NoDraws), key)
           /\ \A key \in late_keys \ sampled_keys : ~HasKey(schema, key)

\* C9 witness: a root array of twelve elements whose first element gives x
\* as an int, whose later elements give x as an object, and whose last
\* element alone has y: the schema has x as an int and no y.
C9_Witness ==
    /\ op = "root"
    /\ Len(input.arr) = 12
    /\ input.arr[1] = PyDict(<<"x">>, <<PyInt(1)>>)
    /\ input.arr[2] = PyDict(<<"x">>, <<PyDict(<<"y">>, <<PyInt(1)>>)>>)
    /\ input.arr[12] = PyDict(<<"y">>, <<PyInt(1)>>)
    /\ PropertyKeys(output.root) = {"x"}
    /\ Get(Get(output.root, "x"), "type") = PyStr(<<"i", "n", "t">>)

\* the first element has key x (and not y), the second element has only
\* key y
FirstXSecondY(arr) ==
    /\ Len(arr) >= 2
    /\ IsDict(arr[1]) /\ HasKey(arr[1], "x") /\ ~HasKey(arr[1], "y")
    /\ IsDict(arr[2]) /\ arr[2].keys = <<"y">>

\* C10 as stated: for such an array the inferred properties contain x and
\* do not contain y, both at the root and under an object key.
C10_OnlyFirstElementBoth ==
    (op = "nested" /\ FirstXSecondY(input.arr)) =>
        /\ "x" \in PropertyKeys(output.root)
        /\ "y" \notin PropertyKeys(output.root)
        /\ "x" \in PropertyKeys(Get(output.nested, "properties"))
        /\ "y" \notin PropertyKeys(Get(output.nested, "properties"))

\* C10 amended: for such an array the inferred properties contain x; they
\* do not contain y when the array is the value of an object key
\* (_analyze_object samples the first element only), and they contain y as
\* well when the array is the document root (analyze_json merges the first
\* ten elements).
C10_FirstElementNestedUnionRoot ==
    (op = "nested" /\ FirstXSecondY(input.arr)) =>
        /\ "x" \in PropertyKeys(output.root)
        /\ "y" \in PropertyKeys(output.root)
        /\ "x" \in PropertyKeys(Get(output.nested, "properties"))
        /\ "y" \notin PropertyKeys(Get(output.nested, "properties"))

\* C10 witness: [{"x": 1}, {"y": 1}] analysed at the root (x and y) and
\* under a key (x only).
C10_Witness ==
    /\ op = "nested"
    /\ input.arr = <<PyDict(<<"x">>, <<PyInt(1)>>), PyDict(<<"y">>, <<PyInt(1)>>)>>
    /\ PropertyKeys(output.root) = {"x", "y"}
    /\ PropertyKeys(Get(output.nested, "properties")) = {"x"}

(***************************************************************************)
(* SpecStats: _compute_array_stats on a drawn array                        *)
(***************************************************************************)
MaxKindLen == 3     \* longest drawn array of mixed scalars
MaxStrLen == 7      \* longest drawn array of strings

\* one or two values of every JSON kind (1.5 and 2.5 are floats)
KindElems ==
    {PyInt(1), PyInt(2), PyFloat(3, 2), PyFloat(5, 2), PyBool(TRUE), PyBool(FALSE),
     PyNone, PyStr(<<"a">>), PyList(<<>>), EmptyDict}
KindArrays == UNION {[1..n -> KindElems] : n \in 1..MaxKindLen}

\* strings "a", "bb", "c", "dd", ...: the k-th has length 1 or 2
Letters == <<"a", "b", "c", "d", "e", "f", "g", "h", "i", "j">>
Word(k) == PyStr(IF k % 2 = 1 THEN <<Letters[k]>> ELSE <<Letters[k], Letters[k]>>)

\* the sequences over 1, 2, .. of length n in which a number occurs only
\* after all smaller ones have occurred: one per pattern of repetitions
MaxOf(s) == IF s = <<>> THEN 0 ELSE CHOOSE m \in Range(s) : \A x \in Range(s) : x <= m
RECURSIVE GrowthSeqs(_)
GrowthSeqs(n) ==
    IF n = 0 THEN {<<>>}
    ELSE UNION {{Append(s, k) : k \in 1..(MaxOf(s) + 1)} : s \in GrowthSeqs(n - 1)}
StringArrays ==
    UNION {{[i \in 1..n |-> Word(s[i])] : s \in GrowthSeqs(n)} : n \in 1..MaxStrLen}

\* longer arrays with six or seven distinct values of different counts
LongStringArrays ==
    {[i \in DOMAIN s |-> Word(s[i])] :
        s \in {<<1, 2, 2, 3, 4, 5, 6, 6>>, <<1, 1, 2, 3, 3, 3, 4, 5, 6>>,
               <<1, 2, 3, 4, 5, 6, 7, 7, 1>>, <<1, 2, 3, 4, 5, 6, 6, 5, 4, 3>>}}

StatsInit ==
    /\ WindowInit /\ SchemaViewerInit
    /\ op = "idle"
    /\ input \in {[arr |-> arr] : arr \in KindArrays \cup StringArrays \cup LongStringArrays}
    /\ output = PyNone

\* JsonSchemaAnalyzer._compute_array_stats(arr)
ComputeArrayStats ==
    /\ op = "idle"
    /\ op' = "stats"
    /\ \E rnd \in RndDraws : output' = [stats |-> _compute_array_stats(input.arr, rnd)]
    /\ UNCHANGED <<input, winVars, schemaVars, widgetVars>>

StatsNext == ComputeArrayStats
SpecStats == StatsInit /\ [][StatsNext]_vars

\* the JSON kind of a value
Kind(v) ==
    CASE v.t \in {"int", "float"} -> "number"
      [] v.t = "bool" -> "boolean"
      [] v.t = "str" -> "string"
      [] v.t = "NoneType" -> "null"
      [] v.t = "list" -> "array"
      [] v.t = "dict" -> "object"

\* C14: uniform_type of a non-empty array is true exactly when every
\* element has the JSON kind of the first element (numbers and booleans
\* are different kinds, integers and non-integers the same kind).
C14_UniformIffSameKind ==
    (op = "stats" /\ input.arr # <<>>) =>
        (Get(output.stats, "uniform_type") = PyBool(TRUE)
            <=> \A i \in DOMAIN input.arr : Kind(input.arr[i]) = Kind(input.arr[1]))

\* every element is a JSON number and the array is reported uniform
UniformNumeric(arr, stats) ==
    /\ arr # <<>>
    /\ \A i \in DOMAIN arr : Kind(arr[i]) = "number"
    /\ Get(stats, "uniform_type") = PyBool(TRUE)

IsStringArray(arr) == arr # <<>> /\ \A i \in DOMAIN arr : arr[i].t = "str"

\* the number of occurrences of v in arr, and the index of the first one
Occurrences(arr, v) == Cardinality({i \in DOMAIN arr : arr[i] = v})
FirstIndex(arr, v) == CHOOSE i \in DOMAIN arr : arr[i] = v /\ \A j \in 1..(i - 1) : arr[j] # v

\* the values listed by a most_common / least_common list
Listed(pairs) == {Get(pairs.items[i], "value") : i \in DOMAIN pairs.items}

\* C16: for a string array of fewer than 1000 elements most_common lists
\* at most 5 (value, count) pairs of distinct values, each count the exact
\* number of occurrences, by descending count, ties in first-encountered
\* order, and no omitted value occurs more often than a listed one.
C16_MostCommon ==
    (op = "stats" /\ IsStringArray(input.arr) /\ Len(input.arr) < 1000) =>
        LET arr == input.arr
            most_common == Get(output.stats, "most_common")
            pairs == most_common.items
            distinct == Range(arr)
        IN /\ HasKey(output.stats, "most_common")
           /\ Len(pairs) <= 5
           /\ Len(pairs) = Min2(5, Cardinality(distinct))
           /\ Cardinality(Listed(most_common)) = Len(pairs)
           /\ \A i \in DOMAIN pairs :
                 /\ Get(pairs[i], "value") \in distinct
                 /\ Get(pairs[i], "count")
                        = PyInt(Occurrences(arr, Get(pairs[i], "value")))
           /\ \A i, j \in DOMAIN pairs :
                 i < j =>
                    LET ci == Occurrences(arr, Get(pairs[i], "value"))
                        cj == Occurrences(arr, Get(pairs[j], "value"))
                    IN \/ ci > cj
                       \/ /\ ci = cj
                          /\ FirstIndex(arr, Get(pairs[i], "value"))
                                < FirstIndex(arr, Get(pairs[j], "value"))
           /\ \A v \in distinct \ Listed(most_common) :
                 \A i \in DOMAIN pairs :
                    Occurrences(arr, v) <= Occurrences(arr, Get(pairs[i], "value"))

\* C16 witness: [a, a, a, bb, bb, c] gives [(a, 3), (bb, 2), (c, 1)].
C16_Witness ==
    /\ op = "stats"
    /\ input.arr = <<Word(1), Word(1), Word(1), Word(2), Word(2), Word(3)>>
    /\ Get(output.stats, "most_common")
          = PyList(<<ValueCount(<<Word(1), 3>>), ValueCount(<<Word(2), 2>>),
                     ValueCount(<<Word(3), 1>>)>>)

\* C17: for a string array of fewer than 1000 elements least_common is
\* present exactly when there are more than 5 distinct values; it then
\* lists 5 pairs with exact counts, by ascending count, ties in reverse of
\* first-encountered order, and every omitted value comes before every
\* listed one in the order of most_common.
C17_LeastCommon ==
    (op = "stats" /\ IsStringArray(input.arr) /\ Len(input.arr) < 1000) =>
        LET arr == input.arr
            distinct == Range(arr)
        IN /\ HasKey(output.stats, "least_common") <=> Cardinality(distinct) > 5
           /\ HasKey(output.stats, "least_common") =>
                 LET least_common == Get(output.stats, "least_common")
                     pairs == least_common.items
                 IN /\ Len(pairs) = 5
                    /\ Cardinality(Listed(least_common)) = 5
                    /\ \A i \in DOMAIN pairs :
                          /\ Get(pairs[i], "value") \in distinct
                          /\ Get(pairs[i], "count")
                                 = PyInt(Occurrences(arr, Get(pairs[i], "value")))
                    /\ \A i, j \in DOMAIN pairs :
                          i < j =>
                             LET ci == Occurrences(arr, Get(pairs[i], "value"))
                                 cj == Occurrences(arr, Get(pairs[j], "value"))
                             IN \/ ci < cj
                                \/ /\ ci = cj
                                   /\ FirstIndex(arr, Get(pairs[i], "value"))
                                         > FirstIndex(arr, Get(pairs[j], "value"))
                    /\ \A v \in distinct \ Listed(least_common) :
                          \A i \in DOMAIN pairs :
                             LET cv == Occurrences(arr, v)
                                 ci == Occurrences(arr, Get(pairs[i], "value"))
                             IN \/ cv > ci
                                \/ /\ cv = ci
                                   /\ FirstIndex(arr, v)
                                         < FirstIndex(arr, Get(pairs[i], "value"))

\* C17 witness: [a, bb, bb, c, dd, e, ff, ff] has six distinct values; the
\* five least common are e, dd, c, a (once each, last met first) and ff
\* (twice, met after bb).
C17_Witness ==
    /\ op = "stats"
    /\ input.arr = <<Word(1), Word(2), Word(2), Word(3), Word(4), Word(5), Word(6), Word(6)>>
    /\ Get(output.stats, "least_common")
          = PyList(<<ValueCount(<<Word(5), 1>>), ValueCount(<<Word(4), 1>>),
                     ValueCount(<<Word(3), 1>>), ValueCount(<<Word(1), 1>>),
                     ValueCount(<<Word(6), 2>>)>>)

(***************************************************************************)
(* SpecRootStats: analyze_json on a root array of numbers or of strings    *)
(* that may be longer than the sample                                      *)
(***************************************************************************)
\* a filler value everywhere but at p, where the array holds another value
OneOff(n, p, filler, other) == [i \in 1..n |-> IF i = p THEN other ELSE filler]

NumberArrays ==
    {OneOff(n, p, PyInt(2), other) :
        n \in 1..MaxArrayLen, p \in 1..MaxArrayLen, other \in {PyInt(1), PyInt(3)}}
WordArrays ==
    {OneOff(n, p, pair[1], pair[2]) :
        n \in 1..MaxArrayLen, p \in 1..MaxArrayLen,
        pair \in {<<Word(1), Word(2)>>, <<Word(2), Word(1)>>}}

RootStatsInit ==
    /\ WindowInit /\ SchemaViewerInit
    /\ op = "idle"
    /\ input \in {[arr |-> arr] : arr \in NumberArrays \cup WordArrays}
    /\ output = PyNone

\* analyze_json(arr) for the root array arr
AnalyzeRootArray ==
    /\ op = "idle"
    /\ op' = "root"
    /\ \E rnd \in RndDraws : output' = [schema |-> analyze_json(PyList(input.arr), rnd)]
    /\ UNCHANGED <<input, winVars, schemaVars, widgetVars>>

RootStatsNext == AnalyzeRootArray
SpecRootStats == RootStatsInit /\ [][RootStatsNext]_vars

\* a <= b for numbers
NumLeq(a, b) == ~RatLess(NumOf(b), NumOf(a))

\* C12: the statistics attached to a root array are those of the whole
\* array: count is its length, min and max are its least and greatest
\* element over all indexes, min_length and max_length the shortest and
\* longest string over all indexes, and the counts of most_common count
\* the occurrences at all indexes.
C12_StatsOverWholeArray ==
    op = "root" =>
        LET arr == input.arr
            stats == Get(output.schema, "__array_stats")
        IN /\ Get(stats, "count") = PyInt(Len(arr))
           /\ arr[1].t = "int" =>
                 /\ Get(stats, "min") \in Range(arr)
                 /\ Get(stats, "max") \in Range(arr)
                 /\ \A i \in DOMAIN arr :
                       /\ NumLeq(Get(stats, "min"), arr[i])
                       /\ NumLeq(arr[i], Get(stats, "max"))
           /\ arr[1].t = "str" =>
                 /\ \E i \in DOMAIN arr : Get(stats, "min_length") = PyInt(Len(arr[i].s))
                 /\ \E i \in DOMAIN arr : Get(stats, "max_length") = PyInt(Len(arr[i].s))
                 /\ \A i \in DOMAIN arr :
                       /\ Get(stats, "min_length").n <= Len(arr[i].s)
                       /\ Len(arr[i].s) <= Get(stats, "max_length").n
                 /\ Listed(Get(stats, "most_common")) = Range(arr)
                 /\ \A k \in DOMAIN Get(stats, "most_common").items :
                       LET pair == Get(stats, "most_common").items[k]
                       IN Get(pair, "count") = PyInt(Occurrences(arr, Get(pair, "value")))

\* C12 witness: twelve numbers of which only the last, beyond the sample
\* of ten, is 1: count is 12 and min is 1.
C12_Witness ==
    /\ op = "root"
    /\ input.arr = OneOff(12, 12, PyInt(2), PyInt(1))
    /\ Get(Get(output.schema, "__array_stats"), "count") = PyInt(12)
    /\ Get(Get(output.schema, "__array_stats"), "min") = PyInt(1)
    /\ Get(Get(output.schema, "__array_stats"), "max") = PyInt(2)

(***************************************************************************)
(* SpecRepeat: analyze_json called twice on the same drawn value           *)
(***************************************************************************)
RootScalars ==
    {PyInt(0), PyInt(1), PyFloat(3, 2), PyStr(<<>>), PyStr(<<"a">>),
     PyBool(TRUE), PyBool(FALSE), PyNone}
SixWords == [i \in 1..6 |-> Word(i)]
RepeatValues ==
    RootScalars \cup FilterDocs
    \cup {PyList(<<>>), PyList(SixWords), PyList(SixWords \o <<Word(1)>>),
          PyDict(<<"a">>, <<PyList(SixWords)>>),
          PyList(<<PyDict(<<"a">>, <<PyList(SixWords)>>)>>)}

RepeatInit ==
    /\ WindowInit /\ SchemaViewerInit
    /\ op = "idle"
    /\ input \in {[v |-> v] : v \in RepeatValues}
    /\ output = PyNone

\* the first call of analyze_json(v)
AnalyzeJson ==
    /\ op = "idle"
    /\ op' = "first"
    /\ \E rnd \in RndDraws : output' = [first |-> analyze_json(input.v, rnd)]
    /\ UNCHANGED <<input, winVars, schemaVars, widgetVars>>

\* a second call of analyze_json(v); random.sample draws afresh
AnalyzeJsonAgain ==
    /\ op = "first"
    /\ op' = "again"
    /\ \E rnd \in RndDraws :
          output' = [first |-> output.first, again |-> analyze_json(input.v, rnd)]
    /\ UNCHANGED <<input, winVars, schemaVars, widgetVars>>

RepeatNext == AnalyzeJson \/ AnalyzeJsonAgain
SpecRepeat == RepeatInit /\ [][RepeatNext]_vars

\* C11: two calls of analyze_json on the same value return the same schema,
\* statistics and examples included.
C11_Deterministic ==
    op = "again" => output.again = output.first

\* C13: for an empty array and for a root value that is neither an object
\* nor a non-empty array, analyze_json returns the empty schema (it returns,
\* it does not raise).
C13_EmptySchema ==
    (op \in {"first", "again"}
        /\ ~IsDict(input.v) /\ ~(IsList(input.v) /\ input.v.items # <<>>))
        => output.first = EmptyDict

\* C13 witness: the empty array has been analysed and the schema is empty.
C13_Witness ==
    /\ op = "first"
    /\ input.v = PyList(<<>>)
    /\ output.first = EmptyDict

(***************************************************************************)
(* str operations and the regular expressions of _fix_jq_syntax            *)
(***************************************************************************)
\* s.startswith(prefix)
StartsWith(s, prefix) ==
    Len(prefix) <= Len(s) /\ SubSeq(s, 1, Len(prefix)) = prefix

\* the literal lit stands in s at position i
LitAt(s, i, lit) ==
    i >= 1 /\ i + Len(lit) - 1 <= Len(s) /\ SubSeq(s, i, i + Len(lit) - 1) = lit

\* s.replace(old, new): every occurrence, left to right, not overlapping
RECURSIVE Replace(_, _, _)
Replace(s, old, new) ==
    IF Len(s) < Len(old) THEN s
    ELSE IF StartsWith(s, old)
    THEN new \o Replace(SubSeq(s, Len(old) + 1, Len(s)), old, new)
    ELSE <<Head(s)>> \o Replace(Tail(s), old, new)

\* s.split('\n')
RECURSIVE SplitLines(_)
SplitLines(s) ==
    IF \E i \in DOMAIN s : s[i] = "\n"
    THEN LET i == CHOOSE k \in DOMAIN s : s[k] = "\n" /\ \A j \in 1..(k - 1) : s[j] # "\n"
         IN <<SubSeq(s, 1, i - 1)>> \o SplitLines(SubSeq(s, i + 1, Len(s)))
    ELSE <<s>>

\* \w
WordChars ==
    {"a", "b", "c", "d", "e", "f", "g", "h", "i", "j", "k", "l", "m", "n",
     "o", "p", "q", "r", "s", "t", "u", "v", "w", "x", "y", "z", "A", "B",
     "C", "D", "E", "F", "G", "H", "I", "J", "K", "L", "M", "N", "O", "P",
     "Q", "R", "S", "T", "U", "V", "W", "X", "Y", "Z", "0", "1", "2", "3",
     "4", "5", "6", "7", "8", "9", "_"}

\* \s+ at i: the position after the run of white space, i when there is none
RECURSIVE AfterSpaces(_, _)
AfterSpaces(s, i) ==
    IF i <= Len(s) /\ s[i] \in Whitespace THEN AfterSpaces(s, i + 1) ELSE i

\* [\.\w+]* at i: the position after the run
RECURSIVE AfterFieldChars(_, _)
AfterFieldChars(s, i) ==
    IF i <= Len(s) /\ s[i] \in WordChars \cup {".", "+"}
    THEN AfterFieldChars(s, i + 1)
    ELSE i

\* (\.\w+[\.\w+]*) at i: the text of the group, <<>> when it does not match
FieldAt(s, i) ==
    IF i >= 1 /\ i + 1 <= Len(s) /\ s[i] = "." /\ s[i + 1] \in WordChars
    THEN SubSeq(s, i, AfterFieldChars(s, i + 1) - 1)
    ELSE <<>>

\* \s+lit at i: the position after lit, 0 when it does not match
SpacesThen(s, i, lit) ==
    LET j == AfterSpaces(s, i)
    IN IF j > i /\ LitAt(s, j, lit) THEN j + Len(lit) ELSE 0

T_sort == <<"s", "o", "r", "t">>
T_r == <<"-", "r">>
T_key == <<"-", "-", "k", "e", "y", "=">>

\* sort\s+-r at i: the position after it, 0 when it does not match
AfterSortR(s, i) ==
    IF LitAt(s, i, T_sort) THEN SpacesThen(s, i + Len(T_sort), T_r) ELSE 0

\* sort\s+-r\s+--key=(\.\w+[\.\w+]*) at i: group 1, <<>> when no match
ReversedKeyAt(s, i) ==
    LET p == AfterSortR(s, i)
        k == IF p = 0 THEN 0 ELSE SpacesThen(s, p, T_key)
    IN IF k = 0 THEN <<>> ELSE FieldAt(s, k)

\* sort\s+--key=(\.\w+[\.\w+]*) at i
KeyAt(s, i) ==
    LET k == IF LitAt(s, i, T_sort) THEN SpacesThen(s, i + Len(T_sort), T_key) ELSE 0
    IN IF k = 0 THEN <<>> ELSE FieldAt(s, k)

\* sort\s+-r\b at i
ReversedAt(s, i) ==
    LET p == AfterSortR(s, i)
    IN p # 0 /\ (p > Len(s) \/ s[p] \notin WordChars)

\* sort\s+-r\s+(\.\w+[\.\w+]*) at i
ReversedFieldAt(s, i) ==
    LET p == AfterSortR(s, i)
        q == IF p = 0 THEN 0 ELSE AfterSpaces(s, p)
    IN IF p = 0 \/ q = p THEN <<>> ELSE FieldAt(s, q)

\* re.search(...).group(1), given the group of the pattern at each position
\* of the text (<<>> where it does not match): the group of the leftmost
\* match, <<>> when there is no match
Search(groups) ==
    IF \E i \in DOMAIN groups : groups[i] # <<>>
    THEN groups[CHOOSE i \in DOMAIN groups :
                    groups[i] # <<>> /\ \A j \in 1..(i - 1) : groups[j] = <<>>]
    ELSE <<>>

\* ChatWidget._fix_jq_syntax(query), lines 987-999: the --key= forms
FixKeySorts(query) ==
    IF StrContains(query, T_key)
    THEN LET reversed == Search([i \in DOMAIN query |-> ReversedKeyAt(query, i)])
             plain == Search([i \in DOMAIN query |-> KeyAt(query, i)])
         IN IF reversed # <<>>
            THEN Replace(query, <<"s", "o", "r", "t", " ", "-", "r", " ", "-", "-", "k", "e", "y", "=">> \o reversed,
                         <<"s", "o", "r", "t", "_", "b", "y", "(">> \o reversed \o <<")", " ", "|", " ", "r", "e", "v", "e", "r", "s", "e">>)
            ELSE IF plain # <<>>
            THEN Replace(query, <<"s", "o", "r", "t", " ", "-", "-", "k", "e", "y", "=">> \o plain,
                         <<"s", "o", "r", "t", "_", "b", "y", "(">> \o plain \o <<")">>)
            ELSE query
    ELSE query

\* mutant: the text "sort -r" replaced without the test of line 1002
fix_reversed_sorts_unguarded(query) ==
    Replace(query, <<"s", "o", "r", "t", " ", "-", "r">>,
            <<"s", "o", "r", "t", " ", "|", " ", "r", "e", "v", "e", "r", "s", "e">>)

\* ChatWidget._fix_jq_syntax(query), lines 1001-1010: sort -r
FixReversedSorts(query) ==
    IF \E i \in DOMAIN query : ReversedAt(query, i)
    THEN LET field == Search([i \in DOMAIN query |-> ReversedFieldAt(query, i)])
         IN IF field # <<>>
            THEN Replace(query, <<"s", "o", "r", "t", " ", "-", "r", " ">> \o field,
                         <<"s", "o", "r", "t", "_", "b", "y", "(">> \o field \o <<")", " ", "|", " ", "r", "e", "v", "e", "r", "s", "e">>)
            ELSE Replace(query, <<"s", "o", "r", "t", " ", "-", "r">>,
                         <<"s", "o", "r", "t", " ", "|", " ", "r", "e", "v", "e", "r", "s", "e">>)
    ELSE query

\* ChatWidget._fix_jq_syntax(query)  (src/gui.py:984-1014)
_fix_jq_syntax(query) == FixReversedSorts(FixKeySorts(query))

\* the lead-ins of src/gui.py:956
LeadIns ==
    <<<<"T", "h", "i", "s">>,
      <<"H", "e", "r", "e">>,
      <<"T", "h", "e">>,
      <<"I">>,
      <<"#">>,
      <<"*">>,
      <<"-">>,
      <<"1", ".">>,
      <<"2", ".">>>>

\* src/gui.py:955-956: the test a stripped line must pass
IsQueryLine(line) ==
    /\ line # <<>>
    /\ \A k \in DOMAIN LeadIns : ~StartsWith(line, LeadIns[k])
    /\ (StrContains(line, <<"|">>) \/ StrContains(line, <<".">>))

\* mutant: the loop without its break, the last line that passes wins
RECURSIVE extract_last_line(_)
extract_last_line(lines) ==
    IF lines = <<>> THEN PyNone
    ELSE LET rest == extract_last_line(Tail(lines))
         IN IF rest # PyNone THEN rest
            ELSE IF IsQueryLine(Strip(Head(lines))) THEN PyStr(Strip(Head(lines)))
            ELSE PyNone

\* src/gui.py:951-959: the loop over the lines, None when no line passes
RECURSIVE ExtractFromLines(_)
ExtractFromLines(lines) ==
    IF lines = <<>> THEN PyNone
    ELSE IF IsQueryLine(Strip(Head(lines))) THEN PyStr(Strip(Head(lines)))
    ELSE ExtractFromLines(Tail(lines))

\* src/gui.py:951-959: jq_query of a response
ExtractQuery(response) == ExtractFromLines(SplitLines(response))

(***************************************************************************)
(* SpecExtract: the extraction applied to responses of a few lines         *)
(***************************************************************************)
MaxLines == 3

ResponseLines ==
    {<<>>,
     <<" ", " ">>,
     <<"T", "h", "i", "s", " ", "a", ".", "b">>,
     <<"H", "e", "r", "e", ".">>,
     <<"T", "h", "e", "|">>,
     <<"I", "t", ".", "x">>,
     <<"#", " ", ".", "a">>,
     <<"*", ".">>,
     <<"-", ".", "a">>,
     <<"1", ".", " ", "a">>,
     <<"2", ".">>,
     <<".", "a">>,
     <<" ", "a", "|", "b", " ">>,
     <<"a", "b", "c">>}

RECURSIVE JoinWith(_, _)
JoinWith(parts, sep) ==
    IF Len(parts) = 1 THEN parts[1]
    ELSE parts[1] \o sep \o JoinWith(Tail(parts), sep)

Responses ==
    {JoinWith(ls, <<"\n">>) :
        ls \in UNION {[1..n -> ResponseLines] : n \in 1..MaxLines}}

ExtractInit ==
    /\ WindowInit
    /\ SchemaViewerInit
    /\ op = "init"
    /\ input \in {[response |-> r] : r \in Responses}
    /\ output = [jq_query |-> PyNone]

Extract ==
    /\ op = "init"
    /\ op' = "extract"
    /\ output' = [jq_query |-> ExtractQuery(input.response)]
    /\ UNCHANGED <<winVars, schemaVars, widgetVars, input>>

ExtractNext == Extract

SpecExtract == ExtractInit /\ [][ExtractNext]_vars

\* the stripped lines of the response, in order
StrippedLines(response) ==
    LET ls == SplitLines(response) IN [i \in DOMAIN ls |-> Strip(ls[i])]

\* C18: the extracted query is the first line of the response that, once
\* trimmed, is non-empty, starts with none of the lead-ins and holds a pipe
\* or a dot; it is that trimmed line; when no line qualifies there is none
C18_FirstQualifyingLine ==
    op = "extract" =>
        LET ls == StrippedLines(input.response)
            Qualifies(i) ==
                /\ Len(ls[i]) > 0
                /\ \A k \in DOMAIN LeadIns : ~StartsWith(ls[i], LeadIns[k])
                /\ \E j \in DOMAIN ls[i] : ls[i][j] \in {"|", "."}
        IN IF \E i \in DOMAIN ls : Qualifies(i)
           THEN \E i \in DOMAIN ls :
                    /\ Qualifies(i)
                    /\ \A j \in 1..(i - 1) : ~Qualifies(j)
                    /\ output.jq_query = PyStr(ls[i])
           ELSE output.jq_query = PyNone

\* a lead-in line, then a padded line that qualifies, then another that does
C18_Witness ==
    /\ op = "extract"
    /\ input.response = JoinWith(<<<<"T", "h", "i", "s", " ", "a", ".", "b">>, <<" ", "a", "|", "b", " ">>, <<".", "a">>>>, <<"\n">>)
    /\ output.jq_query = PyStr(<<"a", "|", "b">>)

(***************************************************************************)
(* SpecNormalize: _fix_jq_syntax applied to pipelines of a few segments    *)
(***************************************************************************)
MaxSegments == 3

QuerySegments ==
    {<<"s", "o", "r", "t", " ", "-", "r", " ", "-", "-", "k", "e", "y", "=", ".", "a">>,
     <<"s", "o", "r", "t", " ", "-", "-", "k", "e", "y", "=", ".", "b">>,
     <<"s", "o", "r", "t", " ", "-", "-", "k", "e", "y", "=", ".", "a", ".", "b">>,
     <<"s", "o", "r", "t", " ", "-", "r", " ", ".", "a">>,
     <<"s", "o", "r", "t", " ", "-", "r">>,
     <<".", "[", "]">>,
     <<"s", "o", "r", "t", " ", " ", "-", "r", " ", ".", "c">>,
     <<"s", "o", "r", "t", " ", "-", "r", "x">>,
     <<"s", "o", "r", "t">>,
     <<"s", "o", "r", "t", " ", "-", "-", "k", "e", "y", "=", "a">>,
     <<"s", "o", "r", "t", "_", "b", "y", "(", ".", "a", ")">>}

Queries ==
    {JoinWith(ss, <<" ", "|", " ">>) :
        ss \in UNION {[1..n -> QuerySegments] : n \in 1..MaxSegments}}

NormalizeInit ==
    /\ WindowInit
    /\ SchemaViewerInit
    /\ op = "init"
    /\ input \in {[query |-> q] : q \in Queries}
    /\ output = [query |-> <<>>]

FixJqSyntax ==
    /\ op = "init"
    /\ op' = "fix"
    /\ output' = [query |-> _fix_jq_syntax(input.query)]
    /\ UNCHANGED <<winVars, schemaVars, widgetVars, input>>

\* _fix_jq_syntax applied to its own result
FixJqSyntaxAgain ==
    /\ op = "fix"
    /\ op' = "again"
    /\ output' = [query |-> output.query, again |-> _fix_jq_syntax(output.query)]
    /\ UNCHANGED <<winVars, schemaVars, widgetVars, input>>

NormalizeNext == FixJqSyntax \/ FixJqSyntaxAgain

SpecNormalize == NormalizeInit /\ [][NormalizeNext]_vars

\* the fields of the flag-style sorts written "sort -r --key=<field>"
ReversedKeySorts(q) ==
    {FieldAt(q, i + Len(<<"s", "o", "r", "t", " ", "-", "r", " ", "-", "-", "k", "e", "y", "=">>)) : i \in
        {i \in DOMAIN q : /\ LitAt(q, i, <<"s", "o", "r", "t", " ", "-", "r", " ", "-", "-", "k", "e", "y", "=">>)
                          /\ FieldAt(q, i + Len(<<"s", "o", "r", "t", " ", "-", "r", " ", "-", "-", "k", "e", "y", "=">>)) # <<>>}}

\* the fields of the flag-style sorts written "sort --key=<field>"
KeySorts(q) ==
    {FieldAt(q, i + Len(<<"s", "o", "r", "t", " ", "-", "-", "k", "e", "y", "=">>)) : i \in
        {i \in DOMAIN q : /\ LitAt(q, i, <<"s", "o", "r", "t", " ", "-", "-", "k", "e", "y", "=">>)
                          /\ FieldAt(q, i + Len(<<"s", "o", "r", "t", " ", "-", "-", "k", "e", "y", "=">>)) # <<>>}}

\* C19: after normalisation every "sort -r --key=<field>" of the query has
\* become "sort_by(<field>) | reverse", every "sort --key=<field>" has become
\* "sort_by(<field>)", and no flag-style sort is left
C19_FlagSortsRewritten ==
    op = "fix" =>
        /\ \A f \in ReversedKeySorts(input.query) :
              StrContains(output.query, <<"s", "o", "r", "t", "_", "b", "y", "(">> \o f \o <<")", " ", "|", " ", "r", "e", "v", "e", "r", "s", "e">>)
        /\ \A f \in KeySorts(input.query) :
              StrContains(output.query, <<"s", "o", "r", "t", "_", "b", "y", "(">> \o f \o <<")">>)
        /\ ReversedKeySorts(output.query) = {}
        /\ KeySorts(output.query) = {}

\* the fields of the bare reversed sorts written "sort -r <field>"
BareReversedSorts(q) ==
    {FieldAt(q, i + Len(<<"s", "o", "r", "t", " ", "-", "r", " ">>)) : i \in
        {i \in DOMAIN q : /\ LitAt(q, i, <<"s", "o", "r", "t", " ", "-", "r", " ">>)
                          /\ FieldAt(q, i + Len(<<"s", "o", "r", "t", " ", "-", "r", " ">>)) # <<>>}}

\* a bare "sort -r" that no field and no --key= follows
HasFieldlessReversedSort(q) ==
    \E i \in DOMAIN q :
        /\ LitAt(q, i, <<"s", "o", "r", "t", " ", "-", "r">>)
        /\ LET p == i + Len(<<"s", "o", "r", "t", " ", "-", "r">>)
           IN \/ p > Len(q)
              \/ /\ q[p] = " "
                 /\ FieldAt(q, p + 1) = <<>>
                 /\ ~LitAt(q, p + 1, T_key)

\* C20: in a query without flag-style sorts, every "sort -r <field>" has
\* become "sort_by(<field>) | reverse" and no "sort -r" without a field is
\* left: each has become "sort | reverse"
C20_BareReversedRewritten ==
    (op = "fix" /\ ~StrContains(input.query, T_key)) =>
        /\ \A f \in BareReversedSorts(input.query) :
              StrContains(output.query, <<"s", "o", "r", "t", "_", "b", "y", "(">> \o f \o <<")", " ", "|", " ", "r", "e", "v", "e", "r", "s", "e">>)
        /\ BareReversedSorts(output.query) = {}
        /\ HasFieldlessReversedSort(input.query) =>
              /\ StrContains(output.query, <<"s", "o", "r", "t", " ", "|", " ", "r", "e", "v", "e", "r", "s", "e">>)
              /\ ~HasFieldlessReversedSort(output.query)

\* "sort", white space, then the flag lit, at position i: the position
\* after the flag, 0 when the text at i is something else
SortFlagAt(q, i, lit) ==
    IF /\ LitAt(q, i, <<"s", "o", "r", "t">>)
       /\ i + Len(<<"s", "o", "r", "t">>) <= Len(q)
       /\ q[i + Len(<<"s", "o", "r", "t">>)] \in {" ", "\t", "\n", "\r"}
    THEN LET j == CHOOSE k \in (i + Len(<<"s", "o", "r", "t">>))..(Len(q) + 1) :
                      /\ \A m \in (i + Len(<<"s", "o", "r", "t">>))..(k - 1) : q[m] \in {" ", "\t", "\n", "\r"}
                      /\ (k > Len(q) \/ q[k] \notin {" ", "\t", "\n", "\r"})
         IN IF LitAt(q, j, lit) THEN j + Len(lit) ELSE 0
    ELSE 0

\* the query holds a bare "sort -r": -r ends there or a non-word character follows
HasBareReversedSort(q) ==
    \E i \in DOMAIN q :
        LET p == SortFlagAt(q, i, <<"-", "r">>)
        IN p # 0 /\ (p > Len(q) \/ q[p] \notin WordChars)

\* the query holds a flag-style sort "sort --key=<field>", <field> a dotted name
HasFlagStyleSort(q) ==
    \E i \in DOMAIN q :
        LET p == SortFlagAt(q, i, <<"-", "-", "k", "e", "y", "=">>)
        IN p # 0 /\ p + 1 <= Len(q) /\ q[p] = "." /\ q[p + 1] \in WordChars

\* C21: a query that holds neither a flag-style sort nor a bare "sort -r"
\* is returned unchanged
C21_OtherTextUnchanged ==
    (op = "fix" /\ ~HasBareReversedSort(input.query) /\ ~HasFlagStyleSort(input.query))
        => output.query = input.query

\* a pipeline with "sort -rx" and a --key= without a dotted field, returned as it is
C21_Witness ==
    /\ op = "fix"
    /\ input.query = <<"s", "o", "r", "t", " ", "-", "r", "x", " ", "|", " ", "s", "o", "r", "t", " ", "-", "-", "k", "e", "y", "=", "a", " ", "|", " ", "s", "o", "r", "t">>
    /\ ~HasBareReversedSort(input.query)
    /\ ~HasFlagStyleSort(input.query)
    /\ output.query = input.query

\* C29: _fix_jq_syntax applied to its own result returns that result
C29_Idempotent ==
    op = "again" => output.again = output.query

\* the kinds of outcome of run_jq_query in which jq did not deliver JSON: a
\* non-zero exit, an output that does not parse, subprocess.run raising
FailedQueryKinds == {"error", "text", "exception"}

\* C22: a query whose engine run fails, or whose output is not JSON, ends in
\* a diagnostic outcome and leaves the loaded file, the document, the schema
\* with its tree and the hidden paths as they were
C22_FailedQueryKeepsState ==
    [][(op' = "query" /\ output'.kind \in FailedQueryKinds) =>
           /\ parsed_json' = parsed_json
           /\ json_content' = json_content
           /\ current_json_file' = current_json_file
           /\ hidden_paths' = hidden_paths
           /\ schema_json_data' = schema_json_data
           /\ schema_info' = schema_info
           /\ tree_items' = tree_items
           /\ tree_hidden_paths' = tree_hidden_paths]_vars

\* a jq error on a loaded object document of which a key is hidden
C22_Witness ==
    /\ op = "query"
    /\ output.kind = "error"
    /\ parsed_json = ObjectDoc
    /\ hidden_paths = {<<"a">>}
    /\ schema_json_data = ObjectDoc

\* r is v with, in every object, exactly the keys dropped whose accumulated
\* path is in H: the kept keys stay in order, each with its value treated
\* the same way under the extended path; array elements are treated under
\* the path of the array
RECURSIVE ObjectsFiltered(_, _, _, _)
ObjectsFiltered(v, r, path, H) ==
    IF IsDict(v)
    THEN /\ IsDict(r)
         /\ r.keys = SelectSeq(v.keys, LAMBDA k : Append(path, k) \notin H)
         /\ \A i \in DOMAIN r.keys :
                ObjectsFiltered(Get(v, r.keys[i]), r.vals[i], Append(path, r.keys[i]), H)
    ELSE IF IsList(v)
    THEN /\ IsList(r)
         /\ \A i \in DOMAIN v.items \cap DOMAIN r.items :
                ObjectsFiltered(v.items[i], r.items[i], path, H)
    ELSE r = v

\* C23: with a non-empty hidden set a key of an object is in the result
\* exactly when its accumulated path is not hidden; a dropped key takes its
\* subtree with it, and a hidden path below a surviving key is removed
\* inside that key's value
C23_ObjectKeysByPath ==
    (op = "filter" /\ input.H # {}) =>
        ObjectsFiltered(input.v, output.once, <<>>, input.H)

\* only a.b is hidden: a survives without its key b, the root key b stays
C23_Witness ==
    /\ op = "filter"
    /\ input.H = {<<"a", "b">>}
    /\ input.v = PyDict(<<"a", "b">>,
                        <<PyDict(<<"b", "a">>, <<PyInt(1), PyNone>>), PyInt(1)>>)
    /\ output.once = PyDict(<<"a", "b">>, <<PyDict(<<"a">>, <<PyNone>>), PyInt(1)>>)

\* r keeps every array of v with its length and order, and an object that
\* is an element of an array at path p (or of an array nested directly in
\* it) has lost exactly the keys k with p + (k,) in H, whatever its index
RECURSIVE ArraysFiltered(_, _, _, _)
ArraysFiltered(v, r, path, H) ==
    IF IsList(v)
    THEN /\ IsList(r)
         /\ Len(r.items) = Len(v.items)
         /\ \A i \in DOMAIN v.items :
                /\ IsDict(v.items[i]) =>
                      /\ IsDict(r.items[i])
                      /\ \A k \in Range(v.items[i].keys) :
                             HasKey(r.items[i], k) <=> Append(path, k) \notin H
                /\ IsList(v.items[i]) => IsList(r.items[i])
                /\ (~IsDict(v.items[i]) /\ ~IsList(v.items[i])) => r.items[i] = v.items[i]
                /\ ArraysFiltered(v.items[i], r.items[i], path, H)
    ELSE IF IsDict(v) /\ IsDict(r)
    THEN \A k \in Range(v.keys) \cap Range(r.keys) :
             ArraysFiltered(Get(v, k), Get(r, k), Append(path, k), H)
    ELSE TRUE

\* C24: with a non-empty hidden set every array keeps its length and the
\* order of its elements, and a hidden path p + (k,) removes the key k from
\* every object element of the array at path p, at every index
C24_ArrayElementsShareThePath ==
    (op = "filter" /\ input.H # {}) =>
        ArraysFiltered(input.v, output.once, <<>>, input.H)

\* the root array of two objects loses the key a in both elements
C24_Witness ==
    /\ op = "filter"
    /\ input.H = {<<"a">>}
    /\ input.v = PyList(<<PyDict(<<"a", "b">>, <<PyInt(1), PyInt(1)>>),
                          PyDict(<<"a">>, <<PyInt(1)>>)>>)
    /\ output.once = PyList(<<PyDict(<<"b">>, <<PyInt(1)>>), EmptyDict>>)

\* C25: min, max, mean, median and stdev are attached only to arrays whose
\* elements are all JSON numbers; an array of booleans has none of them
C25_NumericStatsOnlyForNumbers ==
    op = "stats" =>
        ((\E key \in {"min", "max", "mean", "median", "stdev"} : HasKey(output.stats, key))
            => \A i \in DOMAIN input.arr : Kind(input.arr[i]) = "number")

\* C28: an item of the schema tree is marked hidden exactly when its path
\* is in the window's hidden-path set, and the tree widget's own set equals
\* the window's
C28_IndicatorMatchesHiddenPaths ==
    /\ \A item \in DOMAIN tree_items :
           tree_items[item].hidden <=> _get_item_path(tree_items, item) \in hidden_paths
    /\ tree_hidden_paths = hidden_paths

(***************************************************************************)
(* JqQueryInput  (src/gui.py:95-163) and SpecHistory: key presses in the   *)
(* query field of a window                                                 *)
(***************************************************************************)
HistoryLimit == 50

\* the field's text, saved input and index as navigate_history leaves them
FieldState(index, saved, text) ==
    [history_index |-> index, current_input |-> saved, text |-> text]

\* mutant: the input is not saved when browsing starts (lines 142-143 left out)
navigate_history_no_save(h, index, saved, text, direction) ==
    IF h = <<>>
    THEN FieldState(index, saved, text)
    ELSE LET raw == index + direction
             new_index == IF raw >= Len(h) THEN Len(h) - 1
                          ELSE IF raw < -1 THEN -1
                          ELSE raw
         IN FieldState(new_index, saved,
                       IF new_index = -1 THEN saved ELSE h[Len(h) - new_index])

\* JqQueryInput.navigate_history(direction)  (src/gui.py:136-163), on the
\* history h, self.history_index, self.current_input and the field's text
navigate_history(h, index, saved, text, direction) ==
    IF h = <<>>
    THEN FieldState(index, saved, text)
    ELSE LET kept == IF index = -1 THEN text ELSE saved
             raw == index + direction
             new_index == IF raw >= Len(h) THEN Len(h) - 1
                          ELSE IF raw < -1 THEN -1
                          ELSE raw
         IN FieldState(new_index, kept,
                       \* self.history[len(self.history) - 1 - new_index]
                       IF new_index = -1 THEN kept ELSE h[Len(h) - new_index])

\* JqQueryInput.add_to_history(query)  (src/gui.py:128-134): the new history
add_to_history(h, query) ==
    IF query # <<>> /\ (h = <<>> \/ query # h[Len(h)])
    THEN LET longer == Append(h, query)
         IN IF Len(longer) > HistoryLimit
            THEN SubSeq(longer, Len(longer) - HistoryLimit + 1, Len(longer))
            ELSE longer
    ELSE h

\* the texts a user types into the field
TypedTexts == {<<>>, <<"a">>, <<" ", "b">>}

\* keyPressEvent, Key_Up  (src/gui.py:108-109)
KeyUp ==
    LET st == navigate_history(history, history_index, current_input, query_text, 1)
    IN /\ history_index' = st.history_index
       /\ current_input' = st.current_input
       /\ query_text' = st.text
       /\ op' = "key"
       /\ input' = [key |-> "Up"]
       /\ UNCHANGED <<history, chatVars, winVars, schemaVars, output>>

\* keyPressEvent, Key_Down  (src/gui.py:110-111)
KeyDown ==
    LET st == navigate_history(history, history_index, current_input, query_text, -1)
    IN /\ history_index' = st.history_index
       /\ current_input' = st.current_input
       /\ query_text' = st.text
       /\ op' = "key"
       /\ input' = [key |-> "Down"]
       /\ UNCHANGED <<history, chatVars, winVars, schemaVars, output>>

\* keyPressEvent, Key_Escape  (src/gui.py:113-116)
KeyEscape ==
    /\ query_text' = <<>>
    /\ IF current_json_file # "none"
       THEN /\ reset_to_original_json
            /\ UNCHANGED <<current_json_file, json_content, hidden_paths>>
       ELSE UNCHANGED winVars
    /\ op' = "key"
    /\ input' = [key |-> "Escape"]
    /\ UNCHANGED <<history, history_index, current_input, chatVars, schemaVars, output>>

\* keyPressEvent, Key_Return or Key_Enter  (src/gui.py:118-124)
KeyEnter ==
    LET query == Strip(query_text)
    IN /\ history' =
              IF \/ (query # <<>> /\ history = <<>>)
                 \/ (history # <<>> /\ query # history[Len(history)])
              THEN add_to_history(history, query)
              ELSE history
       /\ history_index' = -1
       /\ run_jq_query(query_text)
       /\ UNCHANGED <<query_text, current_input, chatVars>>

\* keyPressEvent, any other key  (src/gui.py:125-126): the text is edited
KeyText ==
    /\ \E text \in TypedTexts : query_text' = text
    /\ op' = "key"
    /\ input' = [key |-> "text"]
    /\ UNCHANGED <<history, history_index, current_input, chatVars, winVars,
                   schemaVars, output>>

HistoryNext == KeyUp \/ KeyDown \/ KeyEscape \/ KeyEnter \/ KeyText

SpecHistory == Init /\ [][HistoryNext]_vars

MaxPresses == 3

\* the field after k more presses of one arrow key
RECURSIVE Pressed(_, _, _)
Pressed(st, direction, k) ==
    IF k = 0 THEN st
    ELSE Pressed(navigate_history(history, st.history_index, st.current_input,
                                  st.text, direction),
                 direction, k - 1)

\* C30: the history has at most 50 entries, none empty, no two neighbours
\* equal; history_index is in -1 .. len(history) - 1; and from index -1,
\* k presses of Up followed by k presses of Down bring back the text that
\* was in the field
C30_HistoryInvariants ==
    /\ Len(history) <= HistoryLimit
    /\ \A i \in DOMAIN history : history[i] # <<>>
    /\ \A i \in 1..(Len(history) - 1) : history[i] # history[i + 1]
    /\ history_index \in -1..(Len(history) - 1)
    /\ history_index = -1 =>
          \A k \in 1..MaxPresses :
              Pressed(Pressed(FieldState(history_index, current_input, query_text), 1, k),
                      -1, k).text = query_text

\* a full history, browsed back to its oldest entry while a typed text
\* is kept aside
C30_Witness ==
    /\ Len(history) = HistoryLimit
    /\ history_index = HistoryLimit - 1
    /\ query_text = history[1]
    /\ current_input = <<" ", "b">>
    /\ op = "key"

(***************************************************************************)
(* ChatWidget  (src/gui.py:732-1014) and SpecChat: the UI thread and the   *)
(* get_response threads.  A signal emitted by a thread is delivered as one *)
(* posted slot call per connection, in connection order; the UI thread     *)
(* runs the posted calls one at a time, oldest first.                      *)
(***************************************************************************)
MaxMessages == 2

\* random.randint(1000, 9999)  (src/gui.py:873): the least value
GenIdBase == 1000
GenIds == GenIdBase..(GenIdBase + MaxRnd)

\* the answers of the model: one with a query line, one without
ChatResponses ==
    {PyStr(<<"T", "h", "i", "s", " ", "s", "o", "r", "t", "s", ".", "\n", ".", "[", "]", " ", "|", " ", "s", "o", "r", "t", " ", "-", "r">>),
     PyStr(<<"N", "o", " ", "i", "d", "e", "a">>)}

\* the model call of lines 924-940 returns an answer or raises
ModelOutcomes == ChatResponses \cup {Raise("Exception")}

SlotCall(slot, arg) == [slot |-> slot, arg |-> arg]

\* html.replace(generating_span, ""): the blocks without that span
WithoutSpan(blocks, generating_id) ==
    SelectSeq(blocks, LAMBDA b : b # Block("generating", generating_id))

\* ChatWidget.send_message()  (src/gui.py:857-881) with a non-empty message
send_message ==
    /\ Len(workers) < MaxMessages
    /\ \E generating_id \in GenIds :
          LET n == Len(workers) + 1
          IN /\ chat_display' = chat_display
                                \o <<Block("you", n), Block("generating", generating_id)>>
             /\ workers' = Append(workers, [message |-> n,
                                            generating_id |-> generating_id,
                                            pc |-> "model",
                                            response |-> PyNone])
             /\ op' = "send"
             /\ input' = [message |-> n]
    /\ UNCHANGED <<event_queue, query_calls, inputVars, winVars, schemaVars, output>>

\* get_response, lines 922-946 (or 974-979 when the model call raised):
\* the answer arrives, the thread reads the display's HTML, removes its
\* generating span and emits update_html_signal.  toHtml() gives Qt's own
\* serialisation of the document, so the span text is found or not.
WorkerSnapshot(w) ==
    /\ workers[w].pc = "model"
    /\ \E response \in ModelOutcomes, found \in BOOLEAN :
          LET html == IF found
                      THEN WithoutSpan(chat_display, workers[w].generating_id)
                      ELSE chat_display
          IN /\ event_queue' = Append(event_queue, SlotCall("update_chat_html", html))
             /\ workers' = [workers EXCEPT ![w].pc = "emit", ![w].response = response]
    /\ op' = "thread"
    /\ input' = [worker |-> w]
    /\ UNCHANGED <<chat_display, query_calls, inputVars, winVars, schemaVars, output>>

\* the slot calls posted by lines 949-972 for an answer
AnswerCalls(n, response) ==
    LET jq_query == ExtractQuery(response.s)
        fixed == _fix_jq_syntax(jq_query.s)
    IN <<SlotCall("append_to_chat", Block("assistant", n))>>
       \o (IF jq_query # PyNone
           THEN <<SlotCall("append_to_chat", Block("generated_query", n)),
                  \* query_generated.emit: connected at line 1070
                  SlotCall("set_query_from_chat", fixed),
                  \* generate_query_signal.emit: connected at lines 780 and 1071
                  SlotCall("_emit_query_generated", fixed),
                  SlotCall("set_query_from_chat", fixed)>>
           ELSE <<>>)

\* the slot calls posted by lines 981-982 after an exception
ErrorCalls(n) ==
    <<SlotCall("append_to_chat", Block("error", n)),
      SlotCall("append_to_chat", Block("hint", n))>>

\* get_response, lines 949-972 (or 981-982): the remaining emits
WorkerEmit(w) ==
    /\ workers[w].pc = "emit"
    /\ event_queue' = event_queue
                      \o (IF workers[w].response.t = "raise"
                          THEN ErrorCalls(workers[w].message)
                          ELSE AnswerCalls(workers[w].message, workers[w].response))
    /\ workers' = [workers EXCEPT ![w].pc = "done"]
    /\ op' = "thread"
    /\ input' = [worker |-> w]
    /\ UNCHANGED <<chat_display, query_calls, inputVars, winVars, schemaVars, output>>

\* ChatWidget.append_to_chat(html)  (src/gui.py:782-784), posted call
AppendToChat ==
    /\ event_queue # <<>>
    /\ Head(event_queue).slot = "append_to_chat"
    /\ chat_display' = Append(chat_display, Head(event_queue).arg)
    /\ event_queue' = Tail(event_queue)
    /\ op' = "slot"
    /\ input' = [slot |-> "append_to_chat"]
    /\ UNCHANGED <<workers, query_calls, inputVars, winVars, schemaVars, output>>

\* ChatWidget.update_chat_html(html)  (src/gui.py:786-788), posted call
UpdateChatHtml ==
    /\ event_queue # <<>>
    /\ Head(event_queue).slot = "update_chat_html"
    /\ chat_display' = Head(event_queue).arg
    /\ event_queue' = Tail(event_queue)
    /\ op' = "slot"
    /\ input' = [slot |-> "update_chat_html"]
    /\ UNCHANGED <<workers, query_calls, inputVars, winVars, schemaVars, output>>

\* JsonViewerWindow.set_query_from_chat(query)  (src/gui.py:1096-1099)
set_query_from_chat(query) ==
    /\ query_text' = query
    /\ query_calls' = Append(query_calls, query)
    /\ run_jq_query(query)
    /\ UNCHANGED <<history, history_index, current_input>>

\* set_query_from_chat as a posted call
SetQueryFromChat ==
    /\ event_queue # <<>>
    /\ Head(event_queue).slot = "set_query_from_chat"
    /\ set_query_from_chat(Head(event_queue).arg)
    /\ event_queue' = Tail(event_queue)
    /\ UNCHANGED <<chat_display, workers>>

\* ChatWidget._emit_query_generated(query)  (src/gui.py:790-792), posted
\* call: query_generated is emitted in the UI thread and its slot runs at once
EmitQueryGenerated ==
    /\ event_queue # <<>>
    /\ Head(event_queue).slot = "_emit_query_generated"
    /\ set_query_from_chat(Head(event_queue).arg)
    /\ event_queue' = Tail(event_queue)
    /\ UNCHANGED <<chat_display, workers>>

ThreadSnapshot == \E w \in DOMAIN workers : WorkerSnapshot(w)

ThreadEmit == \E w \in DOMAIN workers : WorkerEmit(w)

ChatNext ==
    \/ send_message
    \/ ThreadSnapshot
    \/ ThreadEmit
    \/ AppendToChat
    \/ UpdateChatHtml
    \/ SetQueryFromChat
    \/ EmitQueryGenerated

SpecChat == Init /\ [][ChatNext]_vars

\* every thread has finished and every posted call has run
ChatQuiet ==
    /\ event_queue = <<>>
    /\ \A w \in DOMAIN workers : workers[w].pc = "done"

\* the threads whose answer holds a query
AnswersWithQuery ==
    {w \in DOMAIN workers :
        /\ workers[w].response.t = "str"
        /\ ExtractQuery(workers[w].response.s) # PyNone}

\* C26: each answer from which a query is extracted leads to exactly one
\* call of set_query_from_chat, over all connections of query_generated and
\* generate_query_signal
C26_OneRunPerAnswer ==
    ChatQuiet => Len(query_calls) = Cardinality(AnswersWithQuery)

\* C27: once every thread has finished, every message that was appended is
\* in the display: each user message, each answer or error with its hint,
\* each generated-query note, and the lines of the start
C27_NoMessageLost ==
    ChatQuiet =>
        /\ Block("welcome", 0) \in Range(chat_display)
        /\ Block("models", 0) \in Range(chat_display)
        /\ \A w \in DOMAIN workers :
              /\ Block("you", w) \in Range(chat_display)
              /\ workers[w].response.t = "raise" =>
                    /\ Block("error", w) \in Range(chat_display)
                    /\ Block("hint", w) \in Range(chat_display)
              /\ workers[w].response.t = "str" =>
                    Block("assistant", w) \in Range(chat_display)
              /\ w \in AnswersWithQuery =>
                    Block("generated_query", w) \in Range(chat_display)

====
